---------------------------- MODULE Spec2Model ----------------------------
(***************************************************************************)
(* Meteoalarm RSS ingestion and alert aggregation                          *)
(* (custom_components/meteoalarm_map/rss_feed_reader.py, config_flow.py).  *)
(*                                                                         *)
(* Text is modelled as a sequence of one-character strings, so that        *)
(* lower(), strip(), startswith() and slicing act on characters.  The      *)
(* letter n-tilde of the key 'espana' is written "n~" ("N~" in capitals).  *)
(***************************************************************************)
EXTENDS Integers, Sequences, FiniteSets, TLC

VARIABLES
    call,                 \* direct call of one reader method: its arguments
    ret,                  \* what the last direct call returned (NotReturned before it)
    monitored_countries,  \* fetch_alerts argument
    start_date,           \* fetch_alerts argument
    end_date,             \* fetch_alerts argument
    now,                  \* datetime.now() of the running fetch
    pc,                   \* position of fetch_alerts
    feed,                 \* root.findall('.//item') of the running fetch
    idx,                  \* number of items the loop has taken
    alerts_by_country,    \* the mapping being built
    result,               \* what fetch_alerts returned
    cached_data,          \* self._cached_data
    last_update,          \* self._last_update
    log,                  \* what the running fetch logged as warning or error
    threads,              \* the locals of fetch_alerts in each executor thread
    sensor_state,         \* MeteoalarmSensor._state
    sensor_attributes,    \* MeteoalarmSensor._attributes
    trigger_state,        \* MeteoalarmAlertTriggerSensor._state
    previous_total,       \* MeteoalarmAlertTriggerSensor._previous_total
    previous_alerts,      \* MeteoalarmAlertTriggerSensor._previous_alerts
    reset_task,           \* MeteoalarmAlertTriggerSensor._reset_task
    timers,               \* the reset timers pending in the event loop
    trigger_pc,           \* position of the trigger sensor's method in its thread
    trigger_locals,       \* data, current_alerts and new_alerts of that method
    callback_pc,          \* position of _reset_callback in the event loop
    hass_data             \* hass.data

\* The state of the entities, of the executor threads and of hass.data.
entityVars == <<threads, sensor_state, sensor_attributes, trigger_state,
                previous_total, previous_alerts, reset_task, timers,
                trigger_pc, trigger_locals, callback_pc, hass_data>>

vars == <<call, ret, monitored_countries, start_date, end_date, now, pc, feed,
          idx, alerts_by_country, result, cached_data, last_update, log,
          entityVars>>

fetchVars == <<monitored_countries, start_date, end_date, now, pc, feed,
               idx, alerts_by_country, result, cached_data, last_update, log,
               entityVars>>

readerVars == <<monitored_countries, start_date, end_date, now, pc, feed,
                idx, alerts_by_country, result, cached_data, last_update, log>>

---------------------------------------------------------------------------
(* Python values *)

\* None where a str is expected: a sequence that is no text.
None == << "<None>" >>

\* None where a datetime is expected, and where a dict is expected (a dict
\* being a sequence of entries).
NoneValue == [py |-> "None"]

NoneDict == << NoneValue >>

\* ret before a direct call has returned, and after it returned v.
NotReturned == [returned |-> FALSE]

Returned(v) == [returned |-> TRUE, value |-> v]

\* ret after the method returned v.
ReturnedFrom(method, v) == [returned |-> TRUE, method |-> method, value |-> v]

\* All sequences over S of length at most n.
SeqsUpTo(S, n) == UNION { [1..k -> S] : k \in 0..n }

UpperChars ==
    <<"A", "B", "C", "D", "E", "F", "G", "H", "I", "J", "K", "L", "M", "N",
      "O", "P", "Q", "R", "S", "T", "U", "V", "W", "X", "Y", "Z", "N~">>

LowerChars ==
    <<"a", "b", "c", "d", "e", "f", "g", "h", "i", "j", "k", "l", "m", "n",
      "o", "p", "q", "r", "s", "t", "u", "v", "w", "x", "y", "z", "n~">>

\* The characters str.strip() removes.
Whitespace == {" ", "\t"}

\* str.lower() on one character.
LowerChar(c) ==
    IF \E i \in DOMAIN UpperChars : UpperChars[i] = c
    THEN LowerChars[CHOOSE i \in DOMAIN UpperChars : UpperChars[i] = c]
    ELSE c

\* str.lower()
PyLower(s) == [i \in DOMAIN s |-> LowerChar(s[i])]

\* str.lstrip(): drop leading whitespace, one character at a time.
RECURSIVE PyLStrip(_)
PyLStrip(s) ==
    IF s # <<>> /\ Head(s) \in Whitespace THEN PyLStrip(Tail(s)) ELSE s

\* str.rstrip(): drop trailing whitespace, one character at a time.
RECURSIVE PyRStrip(_)
PyRStrip(s) ==
    IF s # <<>> /\ s[Len(s)] \in Whitespace
    THEN PyRStrip(SubSeq(s, 1, Len(s) - 1))
    ELSE s

\* str.strip()
PyStrip(s) == PyRStrip(PyLStrip(s))

\* str.startswith(prefix)
PyStartsWith(s, prefix) ==
    /\ Len(s) >= Len(prefix)
    /\ SubSeq(s, 1, Len(prefix)) = prefix

\* s[n:]
PySliceFrom(s, n) == SubSeq(s, n + 1, Len(s))

\* Truthiness of a str-or-None value: None and '' are falsy.
Truthy(s) == s # None /\ s # <<>>

---------------------------------------------------------------------------
(* Country resolver *)

country_mappings ==
    {
      << <<"g", "b">>,
         <<"u", "n", "i", "t", "e", "d", " ", "k", "i", "n", "g", "d", "o", "m">> >>,
      << <<"u", "k">>,
         <<"u", "n", "i", "t", "e", "d", " ", "k", "i", "n", "g", "d", "o", "m">> >>,
      << <<"g", "r", "e", "a", "t", " ", "b", "r", "i", "t", "a", "i", "n">>,
         <<"u", "n", "i", "t", "e", "d", " ", "k", "i", "n", "g", "d", "o", "m">> >>,
      << <<"e", "n", "g", "l", "a", "n", "d">>,
         <<"u", "n", "i", "t", "e", "d", " ", "k", "i", "n", "g", "d", "o", "m">> >>,
      << <<"s", "c", "o", "t", "l", "a", "n", "d">>,
         <<"u", "n", "i", "t", "e", "d", " ", "k", "i", "n", "g", "d", "o", "m">> >>,
      << <<"w", "a", "l", "e", "s">>,
         <<"u", "n", "i", "t", "e", "d", " ", "k", "i", "n", "g", "d", "o", "m">> >>,
      << <<"n", "o", "r", "t", "h", "e", "r", "n", " ", "i", "r", "e", "l", "a", "n", "d">>,
         <<"u", "n", "i", "t", "e", "d", " ", "k", "i", "n", "g", "d", "o", "m">> >>,
      << <<"c", "z">>,
         <<"c", "z", "e", "c", "h", " ", "r", "e", "p", "u", "b", "l", "i", "c">> >>,
      << <<"c", "z", "e", "c", "h", "i", "a">>,
         <<"c", "z", "e", "c", "h", " ", "r", "e", "p", "u", "b", "l", "i", "c">> >>,
      << <<"b", "o", "s", "n", "i", "a">>,
         <<"b", "o", "s", "n", "i", "a", " ", "a", "n", "d", " ", "h", "e", "r", "z", "e", "g", "o", "v", "i", "n", "a">> >>,
      << <<"n", "o", "r", "t", "h", " ", "m", "a", "c", "e", "d", "o", "n", "i", "a">>,
         <<"m", "a", "c", "e", "d", "o", "n", "i", "a">> >>,
      << <<"m", "a", "c", "e", "d", "o", "n", "i", "a", " ", "(", "t", "h", "e", " ", "f", "o", "r", "m", "e", "r", " ", "y", "u", "g", "o", "s", "l", "a", "v", " ", "r", "e", "p", "u", "b", "l", "i", "c", " ", "o", "f", ")">>,
         <<"m", "a", "c", "e", "d", "o", "n", "i", "a">> >>,
      << <<"t", "h", "e", " ", "f", "o", "r", "m", "e", "r", " ", "y", "u", "g", "o", "s", "l", "a", "v", " ", "r", "e", "p", "u", "b", "l", "i", "c", " ", "o", "f", " ", "m", "a", "c", "e", "d", "o", "n", "i", "a">>,
         <<"m", "a", "c", "e", "d", "o", "n", "i", "a">> >>,
      << <<"t", "h", "e", " ", "n", "e", "t", "h", "e", "r", "l", "a", "n", "d", "s">>,
         <<"n", "e", "t", "h", "e", "r", "l", "a", "n", "d", "s">> >>,
      << <<"h", "o", "l", "l", "a", "n", "d">>,
         <<"n", "e", "t", "h", "e", "r", "l", "a", "n", "d", "s">> >>,
      << <<"d", "e">>,
         <<"g", "e", "r", "m", "a", "n", "y">> >>,
      << <<"d", "e", "u", "t", "s", "c", "h", "l", "a", "n", "d">>,
         <<"g", "e", "r", "m", "a", "n", "y">> >>,
      << <<"f", "r">>,
         <<"f", "r", "a", "n", "c", "e">> >>,
      << <<"i", "t">>,
         <<"i", "t", "a", "l", "y">> >>,
      << <<"i", "t", "a", "l", "i", "a">>,
         <<"i", "t", "a", "l", "y">> >>,
      << <<"e", "s">>,
         <<"s", "p", "a", "i", "n">> >>,
      << <<"e", "s", "p", "a", "n~", "a">>,
         <<"s", "p", "a", "i", "n">> >>,
      << <<"p", "t">>,
         <<"p", "o", "r", "t", "u", "g", "a", "l">> >>,
      << <<"n", "l">>,
         <<"n", "e", "t", "h", "e", "r", "l", "a", "n", "d", "s">> >>,
      << <<"b", "e">>,
         <<"b", "e", "l", "g", "i", "u", "m">> >>,
      << <<"c", "h">>,
         <<"s", "w", "i", "t", "z", "e", "r", "l", "a", "n", "d">> >>,
      << <<"a", "t">>,
         <<"a", "u", "s", "t", "r", "i", "a">> >>,
      << <<"p", "l">>,
         <<"p", "o", "l", "a", "n", "d">> >>,
      << <<"n", "o">>,
         <<"n", "o", "r", "w", "a", "y">> >>,
      << <<"s", "e">>,
         <<"s", "w", "e", "d", "e", "n">> >>,
      << <<"f", "i">>,
         <<"f", "i", "n", "l", "a", "n", "d">> >>,
      << <<"d", "k">>,
         <<"d", "e", "n", "m", "a", "r", "k">> >>,
      << <<"i", "e">>,
         <<"i", "r", "e", "l", "a", "n", "d">> >>,
      << <<"g", "r">>,
         <<"g", "r", "e", "e", "c", "e">> >>,
      << <<"b", "g">>,
         <<"b", "u", "l", "g", "a", "r", "i", "a">> >>,
      << <<"r", "o">>,
         <<"r", "o", "m", "a", "n", "i", "a">> >>,
      << <<"h", "u">>,
         <<"h", "u", "n", "g", "a", "r", "y">> >>,
      << <<"h", "r">>,
         <<"c", "r", "o", "a", "t", "i", "a">> >>,
      << <<"s", "i">>,
         <<"s", "l", "o", "v", "e", "n", "i", "a">> >>,
      << <<"s", "k">>,
         <<"s", "l", "o", "v", "a", "k", "i", "a">> >>,
      << <<"e", "e">>,
         <<"e", "s", "t", "o", "n", "i", "a">> >>,
      << <<"l", "v">>,
         <<"l", "a", "t", "v", "i", "a">> >>,
      << <<"l", "t">>,
         <<"l", "i", "t", "h", "u", "a", "n", "i", "a">> >>,
      << <<"u", "a">>,
         <<"u", "k", "r", "a", "i", "n", "e">> >>,
      << <<"r", "s">>,
         <<"s", "e", "r", "b", "i", "a">> >>,
      << <<"b", "a">>,
         <<"b", "o", "s", "n", "i", "a", " ", "a", "n", "d", " ", "h", "e", "r", "z", "e", "g", "o", "v", "i", "n", "a">> >>,
      << <<"m", "k">>,
         <<"m", "a", "c", "e", "d", "o", "n", "i", "a">> >>,
      << <<"i", "l">>,
         <<"i", "s", "r", "a", "e", "l">> >>,
      << <<"c", "y">>,
         <<"c", "y", "p", "r", "u", "s">> >>
    }

\* dict.get(key, default) on country_mappings
MappingGet(key, default) ==
    IF \E p \in country_mappings : p[1] = key
    THEN (CHOOSE p \in country_mappings : p[1] = key)[2]
    ELSE default

\* A resolver that forgets the synonym table.
NormalizeWithoutTable(country) ==
    IF ~Truthy(country) THEN <<>> ELSE PyStrip(PyLower(country))

\* _normalize_country_name
NormalizeCountryName(country) ==
    IF ~Truthy(country)
    THEN <<>>
    ELSE LET country_lower == PyStrip(PyLower(country))
         IN  MappingGet(country_lower, country_lower)

\* The literal 'meteoalarm ' of _extract_country_from_title.
MeteoalarmPrefix == <<"m", "e", "t", "e", "o", "a", "l", "a", "r", "m", " ">>

\* _extract_country_from_title
ExtractCountryFromTitle(title) ==
    LET t == PyLower(PyStrip(title))
        country == IF PyStartsWith(t, MeteoalarmPrefix)
                   THEN PyStrip(PySliceFrom(t, 11))
                   ELSE t
    IN  NormalizeCountryName(country)

---------------------------------------------------------------------------
(* Alert extractor *)

(* A description is a sequence of fragments, in the order they occur in the *)
(* text.  Each fragment is one place where a pattern of the extractor may   *)
(* match:                                                                   *)
(*   [k |-> "level",  d |-> digits]   data-awareness-level="digits"         *)
(*   [k |-> "type",   d |-> digits]   data-awareness-type="digits"          *)
(*   [k |-> "period", from |-> ts, until |-> ts]                            *)
(*                     <b>From: </b><i>ts</i><b> Until: </b><i>ts</i>       *)
(*   [k |-> "text"]                   any other text                        *)
(* digits is a sequence of digit characters; with no digit between the      *)
(* quotes the pattern (\d+) does not match.                                 *)

\* None, and a missing XML element, where a description is expected.
NoneDescription == << NoneValue >>

NoElementDescription == << [py |-> "no element"] >>

\* A missing XML element where a title is expected.
NoElement == << "<no element>" >>

DigitChars == <<"0", "1", "2", "3", "4", "5", "6", "7", "8", "9">>

DigitValue(c) == (CHOOSE i \in DOMAIN DigitChars : DigitChars[i] = c) - 1

\* int(digits)
RECURSIVE PyInt(_)
PyInt(digits) ==
    IF digits = <<>>
    THEN 0
    ELSE 10 * PyInt(SubSeq(digits, 1, Len(digits) - 1))
         + DigitValue(digits[Len(digits)])

\* re.findall(r'data-awareness-<kind>="(\d+)"', description): the captured
\* digit strings, in order of occurrence.
RECURSIVE FindAllMarkers(_, _)
FindAllMarkers(kind, description) ==
    IF description = <<>>
    THEN <<>>
    ELSE LET f == Head(description)
             rest == FindAllMarkers(kind, Tail(description))
         IN  IF f.k = kind /\ f.d # <<>> THEN <<f.d>> \o rest ELSE rest

\* max(int(level) for level in level_matches)
MaxInt(matches) ==
    LET values == { PyInt(matches[i]) : i \in DOMAIN matches }
    IN  CHOOSE v \in values : \A w \in values : w <= v

\* level_map.get(max_level, 'unknown')
LevelMapGet(n) ==
    CASE n = 1 -> "green"
      [] n = 2 -> "yellow"
      [] n = 3 -> "orange"
      [] n = 4 -> "red"
      [] OTHER -> "unknown"

\* An extractor that reports the first marker instead of the highest.
ParseFirstLevelFromDescription(description) ==
    IF description = NoneDescription
    THEN "unknown"
    ELSE LET level_matches == FindAllMarkers("level", description)
         IN  IF level_matches # <<>>
             THEN LevelMapGet(PyInt(level_matches[1]))
             ELSE "unknown"

\* An extractor that clamps the highest marker into 1..4.
ParseClampedLevelFromDescription(description) ==
    IF description = NoneDescription
    THEN "unknown"
    ELSE LET level_matches == FindAllMarkers("level", description)
             m == MaxInt(level_matches)
         IN  IF level_matches # <<>>
             THEN LevelMapGet(IF m > 4 THEN 4 ELSE IF m < 1 THEN 1 ELSE m)
             ELSE "unknown"

\* _parse_awareness_level_from_description.  re.findall raises on None; the
\* except clause absorbs it and 'unknown' is returned.
ParseAwarenessLevelFromDescription(description) ==
    IF description = NoneDescription
    THEN "unknown"
    ELSE LET level_matches == FindAllMarkers("level", description)
         IN  IF level_matches # <<>>
             THEN LevelMapGet(MaxInt(level_matches))
             ELSE "unknown"

\* type_map.get(t, f'type_{t}'): a label is a sequence, the name of the
\* table or "type_" followed by the digits of the code.
TypeMapGet(t) ==
    CASE t = <<"1">> -> <<"wind">>
      [] t = <<"2">> -> <<"snow">>
      [] t = <<"3">> -> <<"thunderstorm">>
      [] t = <<"4">> -> <<"fog">>
      [] t = <<"5">> -> <<"temperature">>
      [] t = <<"6">> -> <<"coastal">>
      [] t = <<"7">> -> <<"forest_fire">>
      [] t = <<"8">> -> <<"avalanche">>
      [] t = <<"9">> -> <<"rain">>
      [] t = <<"1", "0">> -> <<"flood">>
      [] t = <<"1", "1">> -> <<"rain_flood">>
      [] t = <<"1", "2">> -> <<"fire">>
      [] OTHER -> <<"type_">> \o t

\* Every order in which a set may be iterated.
IterationOrders(S) ==
    { f \in [1..Cardinality(S) -> S] : \A i, j \in DOMAIN f : f[i] = f[j] => i = j }

\* An extractor that keeps one label per occurrence of a marker.
ParseTypesPerOccurrence(description) ==
    IF description = NoneDescription
    THEN { << <<"unknown">> >> }
    ELSE LET type_matches == FindAllMarkers("type", description)
         IN  IF type_matches # <<>>
             THEN { [i \in DOMAIN type_matches |-> TypeMapGet(type_matches[i])] }
             ELSE { << <<"unknown">> >> }

\* An extractor that answers an empty list when no marker is found.
ParseTypesEmptyDefault(description) ==
    IF description = NoneDescription
    THEN { <<>> }
    ELSE LET type_matches == FindAllMarkers("type", description)
         IN  IF type_matches # <<>>
             THEN { [i \in DOMAIN order |-> TypeMapGet(order[i])] :
                      order \in IterationOrders({ type_matches[i] : i \in DOMAIN type_matches }) }
             ELSE { <<>> }

\* _parse_awareness_type_from_description: the lists it may return.  The
\* list follows the iteration order of set(type_matches), which Python
\* leaves unspecified, so every order is possible.
ParseAwarenessTypeFromDescription(description) ==
    IF description = NoneDescription
    THEN { << <<"unknown">> >> }
    ELSE LET type_matches == FindAllMarkers("type", description)
         IN  IF type_matches # <<>>
             THEN { [i \in DOMAIN order |-> TypeMapGet(order[i])] :
                      order \in IterationOrders({ type_matches[i] : i \in DOMAIN type_matches }) }
             ELSE { << <<"unknown">> >> }

\* A multiplicity that counts every alert once.
AlertCountOne(description) == 1

\* alert_count of fetch_alerts: the number of level markers, 1 when none.
AlertCount(description) ==
    LET alert_count == Len(FindAllMarkers("level", description))
    IN  IF alert_count = 0 THEN 1 ELSE alert_count

---------------------------------------------------------------------------
(* Dates *)

(* A calendar date is <<year, month, day>>.  A datetime is a record        *)
(* [date |-> calendar date, tz |-> offset text or "naive"]; its time of    *)
(* day is read by no operation of the reader and is left out.              *)

\* What an operation yields when it raises ValueError.
ValueError == [py |-> "ValueError"]

\* datetime.date()
DateOf(dt) == dt.date

\* d1 < d2 on calendar dates
DateLess(d1, d2) ==
    \/ d1[1] < d2[1]
    \/ d1[1] = d2[1] /\ d1[2] < d2[2]
    \/ d1[1] = d2[1] /\ d1[2] = d2[2] /\ d1[3] < d2[3]

\* d1 <= d2 on calendar dates
DateLessEq(d1, d2) == d1 = d2 \/ DateLess(d1, d2)

MonthNames ==
    <<"Jan", "Feb", "Mar", "Apr", "May", "Jun",
      "Jul", "Aug", "Sep", "Oct", "Nov", "Dec">>

IsLeapYear(y) == (y % 4 = 0 /\ y % 100 # 0) \/ y % 400 = 0

DaysInMonth(y, m) ==
    IF m = 2 THEN (IF IsLeapYear(y) THEN 29 ELSE 28)
    ELSE IF m \in {4, 6, 9, 11} THEN 30 ELSE 31

(* The text of a pubDate element is one of                                 *)
(*   [fmt |-> "rfc822", wd, day, mon, year, tz]  "wd, day mon year 08:00:00 tz" *)
(*   [fmt |-> "garbage"]                         text of no date format    *)
(*   [fmt |-> "empty"]                           ''                        *)
(*   [fmt |-> "none"]                            None (an empty element)   *)
(* year is the sequence of digits written for the year.                    *)

\* The offsets %z accepts among the zones of the feed.
NumericOffsets == {"+0000", "+0200"}

\* The year %y gives for two digits (POSIX: 69-99 are 19xx, 00-68 are 20xx).
YearOfTwoDigits(n) == IF n <= 68 THEN 2000 + n ELSE 1900 + n

\* datetime.strptime(pub_date, "%a, %d %b %y %H:%M:%S %z") with year_digits
\* = 2, and with "%Y" for "%y" with year_digits = 4: the datetime, or
\* ValueError.  %y matches exactly two digits and %Y exactly four.
Strptime(pub_date, year_digits) ==
    IF pub_date.fmt # "rfc822" \/ pub_date.tz \notin NumericOffsets
       \/ Len(pub_date.year) # year_digits
       \/ pub_date.mon \notin { MonthNames[i] : i \in DOMAIN MonthNames }
    THEN ValueError
    ELSE LET n == PyInt(pub_date.year)
             y == IF year_digits = 2 THEN YearOfTwoDigits(n) ELSE n
             m == CHOOSE i \in DOMAIN MonthNames : MonthNames[i] = pub_date.mon
         IN  IF y < 1 \/ pub_date.day < 1 \/ pub_date.day > DaysInMonth(y, m)
             THEN ValueError
             ELSE [date |-> <<y, m, pub_date.day>>, tz |-> pub_date.tz]

\* A parser that tries the two-digit-year format only.
ParsePubDateTwoDigitOnly(pub_date, clock) ==
    IF pub_date.fmt \notin {"empty", "none"}
    THEN IF Strptime(pub_date, 2) # ValueError THEN Strptime(pub_date, 2) ELSE clock
    ELSE clock

\* The publish instant of fetch_alerts: %y first, then %Y, then
\* datetime.now(); datetime.now() when the text is '' or None.
ParsePubDate(pub_date, clock) ==
    IF pub_date.fmt \notin {"empty", "none"}
    THEN IF Strptime(pub_date, 2) # ValueError
         THEN Strptime(pub_date, 2)
         ELSE IF Strptime(pub_date, 4) # ValueError
              THEN Strptime(pub_date, 4)
              ELSE clock
    ELSE clock

(* The text of a From/Until timestamp is                                   *)
(*   [fmt |-> "iso", date, zone]   ISO-8601, zone "", "Z" or "+00:00"      *)
(*   [fmt |-> "garbage"]           text that is no ISO-8601 timestamp      *)

\* str.replace('Z', '+00:00') on a timestamp
ReplaceZ(ts) ==
    IF ts.fmt = "iso" /\ ts.zone = "Z" THEN [ts EXCEPT !.zone = "+00:00"] ELSE ts

\* datetime.fromisoformat: the datetime, or ValueError
FromIsoFormat(ts) ==
    IF ts.fmt = "iso" /\ ts.zone \in {"", "+00:00"}
    THEN [date |-> ts.date, tz |-> IF ts.zone = "" THEN "naive" ELSE ts.zone]
    ELSE ValueError

\* _parse_time_periods: a period whose timestamps do not parse is dropped.
RECURSIVE ParseTimePeriods(_)
ParseTimePeriods(description) ==
    IF description = <<>> \/ description = NoneDescription
    THEN <<>>
    ELSE LET f == Head(description)
             rest == ParseTimePeriods(Tail(description))
         IN  IF f.k # "period"
             THEN rest
             ELSE LET from_dt == FromIsoFormat(ReplaceZ(f.from))
                      until_dt == FromIsoFormat(ReplaceZ(f.until))
                  IN  IF from_dt = ValueError \/ until_dt = ValueError
                      THEN rest
                      ELSE << [from |-> from_dt, until |-> until_dt,
                               from_str |-> f.from, until_str |-> f.until] >>
                           \o rest

---------------------------------------------------------------------------
(* Relevance filter *)

\* Whether x has the method date(): x is a datetime.
IsDatetime(x) == "date" \in DOMAIN x

\* The loop over the periods in the try block of _is_alert_relevant:
\* "true" (return True), "false" (loop ended) or "raise".  The operands of
\* 'or' are evaluated left to right, the right one only when the left one
\* is false.
RECURSIVE PeriodsOverlap(_, _, _)
PeriodsOverlap(periods, range_start, range_end) ==
    IF periods = <<>>
    THEN "false"
    ELSE LET period == Head(periods)
         IN  IF "from" \notin DOMAIN period \/ ~IsDatetime(period.from)
             THEN "raise"
             ELSE IF "until" \notin DOMAIN period \/ ~IsDatetime(period.until)
             THEN "raise"
             ELSE LET period_start == DateOf(period.from)
                      period_end == DateOf(period.until)
                  IN  IF DateLess(period_end, DateOf(range_start))
                      THEN PeriodsOverlap(Tail(periods), range_start, range_end)
                      ELSE IF ~IsDatetime(range_end)
                      THEN "raise"
                      ELSE IF DateLess(DateOf(range_end), period_start)
                      THEN PeriodsOverlap(Tail(periods), range_start, range_end)
                      ELSE "true"

\* The try block of _is_alert_relevant: "true", "false" or "raise".  In the
\* chained comparison end_date.date() is evaluated only when the first
\* comparison is true.
RelevantBody(alert_time, periods, range_start, range_end) ==
    IF ~IsDatetime(range_start) \/ ~IsDatetime(alert_time)
    THEN "raise"
    ELSE IF DateLessEq(DateOf(range_start), DateOf(alert_time))
            /\ ~IsDatetime(range_end)
    THEN "raise"
    ELSE IF DateLessEq(DateOf(range_start), DateOf(alert_time))
            /\ DateLessEq(DateOf(alert_time), DateOf(range_end))
    THEN "true"
    ELSE PeriodsOverlap(periods, range_start, range_end)

\* A filter that looks at the publish date only.
IsAlertRelevantPublishDateOnly(alert_time, periods, range_start, range_end) ==
    /\ IsDatetime(range_start) /\ IsDatetime(alert_time) /\ IsDatetime(range_end)
    /\ DateLessEq(DateOf(range_start), DateOf(alert_time))
    /\ DateLessEq(DateOf(alert_time), DateOf(range_end))

\* A filter that excludes the alert when the evaluation raises.
IsAlertRelevantFailClosed(alert_time, periods, range_start, range_end) ==
    RelevantBody(alert_time, periods, range_start, range_end) = "true"

\* _is_alert_relevant: the except clause returns True.
IsAlertRelevant(alert_time, periods, range_start, range_end) ==
    LET body == RelevantBody(alert_time, periods, range_start, range_end)
    IN  IF body = "raise" THEN TRUE ELSE body = "true"

---------------------------------------------------------------------------
(* Direct calls of one reader method, and the reader at rest *)

\* The fetch state of a reader on which fetch_alerts has not been called
\* (__init__: _cached_data = None, _last_update = None).
ReaderAtRest ==
    /\ monitored_countries = <<>>
    /\ start_date = NoneValue
    /\ end_date = NoneValue
    /\ now = NoneValue
    /\ pc = "idle"
    /\ feed = <<>>
    /\ idx = 0
    /\ alerts_by_country = <<>>
    /\ result = NoneDict
    /\ cached_data = NoneDict
    /\ last_update = NoneValue
    /\ log = <<>>

\* The entities before they are made; no thread runs fetch_alerts.
NoState == 0 - 1

NoTask == 0

ThreadNames == {"main_sensor", "alert_trigger_sensor"}

ThreadAtRest ==
    [pc |-> "idle", feed |-> <<>>, idx |-> 0, alerts_by_country |-> <<>>,
     result |-> NoneDict, now |-> NoneValue]

EntitiesAtRest ==
    /\ threads = [t \in ThreadNames |-> ThreadAtRest]
    /\ sensor_state = NoState
    /\ sensor_attributes = [kind |-> "empty"]
    /\ trigger_state = FALSE
    /\ previous_total = 0
    /\ previous_alerts = {}
    /\ reset_task = NoTask
    /\ timers = {}
    /\ trigger_pc = "idle"
    /\ trigger_locals = [kind |-> "none"]
    /\ callback_pc = "idle"
    /\ hass_data = <<>>

\* No direct call is under way.
NoCall == [fn |-> "none"]

---------------------------------------------------------------------------
(* Titles the resolver is called with *)

\* Longest run of whitespace put around the parts of a title.
MaxPad == 1

Pads == SeqsUpTo(Whitespace, MaxPad)

TitlePrefixes ==
    { <<>>,
      <<"m", "e", "t", "e", "o", "a", "l", "a", "r", "m", " ">>,
      <<"M", "e", "t", "e", "o", "a", "l", "a", "r", "m", " ">>,
      <<"M", "E", "T", "E", "O", "A", "L", "A", "R", "M", " ">>,
      <<"m", "e", "t", "e", "o", "a", "l", "a", "r", "m", "\t">>,
      <<"m", "e", "t", "e", "o", "a", "l", "a", "r", "m">> }

TitleNames ==
    { <<>>,
      <<"i", "t", "a", "l", "y">>,
      <<"I", "t", "a", "l", "y">>,
      <<"U", "K">>,
      <<"H", "o", "l", "l", "a", "n", "d">>,
      <<"t", "h", "e", " ", "n", "e", "t", "h", "e", "r", "l", "a", "n", "d", "s">>,
      <<"T", "h", "e", " ", " ", "N", "e", "t", "h", "e", "r", "l", "a", "n", "d", "s">>,
      <<"E", "S", "P", "A", "N~", "A">>,
      <<"a", "t", "l", "a", "n", "t", "i", "s">>,
      <<"m", "e", "t", "e", "o", "a", "l", "a", "r", "m", " ", "u", "k">>,
      <<"N", "o", "r", "t", "h", "e", "r", "n", " ", "I", "r", "e", "l", "a", "n", "d">>,
      <<"n", " ", "l">> }

ResolverTitles ==
    { p1 \o pre \o p2 \o nm \o p3 :
        p1 \in Pads, pre \in TitlePrefixes, p2 \in Pads, nm \in TitleNames,
        p3 \in Pads }

InitResolver ==
    /\ call \in { [fn |-> "_extract_country_from_title", title |-> t] :
                    t \in ResolverTitles }
    /\ ret = NotReturned
    /\ ReaderAtRest
    /\ EntitiesAtRest

CallExtractCountryFromTitle ==
    /\ call.fn = "_extract_country_from_title"
    /\ ~ret.returned
    /\ ret' = Returned(ExtractCountryFromTitle(call.title))
    /\ UNCHANGED <<call, fetchVars>>

NextResolver == CallExtractCountryFromTitle

SpecResolver == InitResolver /\ [][NextResolver]_vars

---------------------------------------------------------------------------
(* C1 *)

\* Trimming stated by position: the text between the first and the last
\* character that is not whitespace.
TrimmedText(s) ==
    LET inked == { i \in DOMAIN s : s[i] \notin Whitespace }
    IN  IF inked = {}
        THEN <<>>
        ELSE SubSeq(s, CHOOSE i \in inked : \A j \in inked : i <= j,
                       CHOOSE i \in inked : \A j \in inked : i >= j)

\* The resolution C1 describes.
ResolutionOf(title) ==
    LET t == TrimmedText(PyLower(title))
        remainder == IF PyStartsWith(t, MeteoalarmPrefix)
                     THEN TrimmedText(SubSeq(t, Len(MeteoalarmPrefix) + 1, Len(t)))
                     ELSE t
    IN  IF \E p \in country_mappings : p[1] = remainder
        THEN (CHOOSE p \in country_mappings : p[1] = remainder)[2]
        ELSE remainder

\* C1: the country resolver returns, for every title, the title lowercased
\* and trimmed, without a leading 'meteoalarm ' and trimmed again, mapped
\* through the synonym table when it is a key of it and unchanged otherwise.
C1_ResolverContract ==
    (call.fn = "_extract_country_from_title" /\ ret.returned)
        => ret.value = ResolutionOf(call.title)

\* A padded, capitalised, prefixed synonym was resolved to its canonical key.
C1_Witness ==
    /\ call.fn = "_extract_country_from_title"
    /\ call.title = <<" ", "M", "E", "T", "E", "O", "A", "L", "A", "R", "M", " ",
                      "\t", "U", "K", " ">>
    /\ ret.returned
    /\ ret.value = <<"u", "n", "i", "t", "e", "d", " ", "k", "i", "n", "g", "d", "o", "m">>

---------------------------------------------------------------------------
(* Descriptions the extractor is called with *)

\* Longest description, in fragments.
MaxFragments == 3

LevelDigits == { <<"1">>, <<"2">>, <<"4">>, <<"5">>, <<"0">>, <<"0", "4">>, <<>> }

TypeDigits == { <<"1">>, <<"1", "2">>, <<"1", "3">>, <<"0", "1">>, <<>> }

ExtractorFragments ==
    { [k |-> "level", d |-> d] : d \in LevelDigits }
    \cup { [k |-> "type", d |-> d] : d \in TypeDigits }
    \cup { [k |-> "text"] }

ExtractorDescriptions == SeqsUpTo(ExtractorFragments, MaxFragments)

InitExtractor ==
    /\ call \in [fn : {"_parse_awareness_level_from_description",
                       "_parse_awareness_type_from_description",
                       "alert_count"},
                 description : ExtractorDescriptions]
    /\ ret = NotReturned
    /\ ReaderAtRest
    /\ EntitiesAtRest

CallParseAwarenessLevel ==
    /\ call.fn = "_parse_awareness_level_from_description"
    /\ ~ret.returned
    /\ ret' = Returned(ParseAwarenessLevelFromDescription(call.description))
    /\ UNCHANGED <<call, fetchVars>>

CallParseAwarenessType ==
    /\ call.fn = "_parse_awareness_type_from_description"
    /\ ~ret.returned
    /\ \E types \in ParseAwarenessTypeFromDescription(call.description) :
          ret' = Returned(types)
    /\ UNCHANGED <<call, fetchVars>>

CallAlertCount ==
    /\ call.fn = "alert_count"
    /\ ~ret.returned
    /\ ret' = Returned(AlertCount(call.description))
    /\ UNCHANGED <<call, fetchVars>>

NextExtractor ==
    \/ CallParseAwarenessLevel
    \/ CallParseAwarenessType
    \/ CallAlertCount

SpecExtractor == InitExtractor /\ [][NextExtractor]_vars

---------------------------------------------------------------------------
(* C3, C5, C6 *)

\* The numbers of the level markers of a description, and the codes of its
\* type markers, read off the fragments by position.
LevelNumbers(description) ==
    { PyInt(description[i].d) :
        i \in { j \in DOMAIN description :
                  description[j].k = "level" /\ description[j].d # <<>> } }

TypeCodes(description) ==
    { description[i].d :
        i \in { j \in DOMAIN description :
                  description[j].k = "type" /\ description[j].d # <<>> } }

HighestOf(numbers) == CHOOSE n \in numbers : \A m \in numbers : m <= n

ColourOf(n) == <<"green", "yellow", "orange", "red">>[n]

Reversed(s) == [i \in DOMAIN s |-> s[Len(s) + 1 - i]]

\* C3: when a description holds at least one level marker, the extracted
\* severity is the colour of the highest marker number (1 green, 2 yellow,
\* 3 orange, 4 red), whatever the order of the markers.
C3_MaxLevelWins ==
    ( /\ call.fn = "_parse_awareness_level_from_description"
      /\ ret.returned
      /\ LevelNumbers(call.description) # {}
      /\ HighestOf(LevelNumbers(call.description)) \in 1..4 )
    => /\ ret.value = ColourOf(HighestOf(LevelNumbers(call.description)))
       /\ ParseAwarenessLevelFromDescription(Reversed(call.description)) = ret.value

\* The markers 2 and 4, the higher one first, were extracted as red.
C3_Witness ==
    /\ call.fn = "_parse_awareness_level_from_description"
    /\ call.description = << [k |-> "level", d |-> <<"4">>], [k |-> "text"],
                             [k |-> "level", d |-> <<"2">>] >>
    /\ ret.returned
    /\ ret.value = "red"

\* C5: a description with no level marker and no type marker gives the
\* severity 'unknown', the hazard types ['unknown'] and the multiplicity 1.
C5_NoMarkersDefaults ==
    ( /\ call.fn \in {"_parse_awareness_level_from_description",
                      "_parse_awareness_type_from_description", "alert_count"}
      /\ ret.returned
      /\ LevelNumbers(call.description) = {}
      /\ TypeCodes(call.description) = {} )
    => CASE call.fn = "_parse_awareness_level_from_description" ->
                ret.value = "unknown"
         [] call.fn = "_parse_awareness_type_from_description" ->
                ret.value = << <<"unknown">> >>
         [] call.fn = "alert_count" ->
                ret.value = 1

\* The hazard types of a description of plain text and markers without
\* digits were extracted.
C5_Witness ==
    /\ call.fn = "_parse_awareness_type_from_description"
    /\ call.description = << [k |-> "text"], [k |-> "type", d |-> <<>>],
                             [k |-> "level", d |-> <<>>] >>
    /\ ret.returned
    /\ ret.value = << <<"unknown">> >>

TypeNames ==
    <<"wind", "snow", "thunderstorm", "fog", "temperature", "coastal",
      "forest_fire", "avalanche", "rain", "flood", "rain_flood", "fire">>

\* The label C6 gives a marker code: the table name when the code is one of
\* '1' .. '12' as the table writes them, 'type_' and the code otherwise.
LabelOfCode(code) ==
    IF Head(code) # "0" /\ PyInt(code) \in 1..12
    THEN << TypeNames[PyInt(code)] >>
    ELSE <<"type_">> \o code

\* C6: when a description holds at least one type marker, the extracted
\* hazard types hold exactly one entry per distinct marker code and no
\* duplicate: the table name for the codes 1..12, 'type_N' for any other
\* code N; 'unknown' is not among them.
C6_TypesPerDistinctCode ==
    ( /\ call.fn = "_parse_awareness_type_from_description"
      /\ ret.returned
      /\ TypeCodes(call.description) # {} )
    => /\ Len(ret.value) = Cardinality(TypeCodes(call.description))
       /\ { ret.value[i] : i \in DOMAIN ret.value }
            = { LabelOfCode(c) : c \in TypeCodes(call.description) }
       /\ \A i, j \in DOMAIN ret.value : ret.value[i] = ret.value[j] => i = j
       /\ \A i \in DOMAIN ret.value : ret.value[i] # <<"unknown">>

\* A code of the table given twice and a code outside the table were
\* extracted as two labels.
C6_Witness ==
    /\ call.fn = "_parse_awareness_type_from_description"
    /\ call.description = << [k |-> "type", d |-> <<"1", "2">>],
                             [k |-> "type", d |-> <<"1", "3">>],
                             [k |-> "type", d |-> <<"1", "2">>] >>
    /\ ret.returned
    /\ ret.value = << <<"type_", "1", "3">>, <<"fire">> >>

---------------------------------------------------------------------------
(* Calls of the relevance filter *)

\* Longest list of validity periods.
MaxPeriods == 2

FilterDays == { <<2025, 1, 1>>, <<2025, 1, 2>>, <<2025, 6, 1>> }

FilterDatetimes == { [date |-> d, tz |-> "naive"] : d \in FilterDays }

\* The period dicts _parse_time_periods builds.
WellFormedPeriods ==
    { [from |-> f, until |-> u,
       from_str |-> [fmt |-> "iso", date |-> f.date, zone |-> ""],
       until_str |-> [fmt |-> "iso", date |-> u.date, zone |-> ""]] :
        f \in FilterDatetimes, u \in FilterDatetimes }

\* Periods no parser of the reader builds: no 'from' key, a 'from' of None.
MalformedPeriods ==
    { [until |-> [date |-> <<2025, 1, 1>>, tz |-> "naive"]],
      [from |-> NoneValue, until |-> [date |-> <<2025, 1, 2>>, tz |-> "naive"]] }

InitRelevance ==
    /\ call \in [fn : {"_is_alert_relevant"},
                 alert_time : FilterDatetimes,
                 periods : SeqsUpTo(WellFormedPeriods \cup MalformedPeriods, MaxPeriods),
                 start_date : FilterDatetimes \cup {NoneValue},
                 end_date : FilterDatetimes \cup {NoneValue}]
    /\ ret = NotReturned
    /\ ReaderAtRest
    /\ EntitiesAtRest

\* The call returns the filter's answer; error_logged tells whether the
\* except clause ran (it logs "Error checking alert relevance").
CallIsAlertRelevant ==
    /\ call.fn = "_is_alert_relevant"
    /\ ~ret.returned
    /\ ret' = [returned |-> TRUE,
               value |-> IsAlertRelevant(call.alert_time, call.periods,
                                         call.start_date, call.end_date),
               error_logged |-> RelevantBody(call.alert_time, call.periods,
                                             call.start_date, call.end_date) = "raise"]
    /\ UNCHANGED <<call, fetchVars>>

NextRelevance == CallIsAlertRelevant

SpecRelevance == InitRelevance /\ [][NextRelevance]_vars

---------------------------------------------------------------------------
(* C7, C8 *)

\* A calendar date as one number that grows with the date.
DayNumber(d) == d[1] * 372 + d[2] * 31 + d[3]

WellFormedCall ==
    /\ IsDatetime(call.start_date)
    /\ IsDatetime(call.end_date)
    /\ \A i \in DOMAIN call.periods : call.periods[i] \in WellFormedPeriods

PublishedInRange ==
    /\ DayNumber(call.start_date.date) <= DayNumber(call.alert_time.date)
    /\ DayNumber(call.alert_time.date) <= DayNumber(call.end_date.date)

SomePeriodOverlaps ==
    \E i \in DOMAIN call.periods :
        ~ \/ DayNumber(call.periods[i].until.date) < DayNumber(call.start_date.date)
          \/ DayNumber(call.periods[i].from.date) > DayNumber(call.end_date.date)

\* C7: for well-formed inputs the relevance filter includes an alert exactly
\* when its publish date lies in [start, end] or one of its validity periods
\* satisfies NOT (period_end < start OR period_start > end), by calendar
\* date.
C7_RelevanceContract ==
    (call.fn = "_is_alert_relevant" /\ ret.returned /\ WellFormedCall)
    => (ret.value <=> (PublishedInRange \/ SomePeriodOverlaps))

\* An alert published on 2025-06-01 with the period [2025-01-01, 2025-01-02]
\* was included for the range [2025-01-01, 2025-01-01].
C7_Witness ==
    /\ call.fn = "_is_alert_relevant"
    /\ call.alert_time.date = <<2025, 6, 1>>
    /\ call.start_date = [date |-> <<2025, 1, 1>>, tz |-> "naive"]
    /\ call.end_date = [date |-> <<2025, 1, 1>>, tz |-> "naive"]
    /\ Len(call.periods) = 1
    /\ call.periods[1] \in WellFormedPeriods
    /\ call.periods[1].from.date = <<2025, 1, 1>>
    /\ call.periods[1].until.date = <<2025, 1, 2>>
    /\ ret.returned
    /\ ret.value = TRUE

\* C8: when evaluating the relevance of an alert raises an error, the
\* filter returns (it does not propagate the error) and answers 'include';
\* a missing range start is such an error.
C8_FailOpen ==
    (call.fn = "_is_alert_relevant" /\ ret.returned)
    => /\ ret.error_logged => ret.value = TRUE
       /\ ~IsDatetime(call.start_date) => ret.error_logged

\* An alert published outside the range, with a period lacking 'from', made
\* the evaluation raise and was included.
C8_Witness ==
    /\ call.fn = "_is_alert_relevant"
    /\ call.alert_time.date = <<2025, 6, 1>>
    /\ call.start_date = [date |-> <<2025, 1, 1>>, tz |-> "naive"]
    /\ call.end_date = [date |-> <<2025, 1, 2>>, tz |-> "naive"]
    /\ call.periods = << [until |-> [date |-> <<2025, 1, 1>>, tz |-> "naive"]] >>
    /\ ret.returned
    /\ ret.error_logged
    /\ ret.value = TRUE

---------------------------------------------------------------------------
(* Publish dates the parser is given *)

PubDateYears ==
    { <<"2", "5">>, <<"2", "0", "2", "5">>, <<"6", "8">>, <<"2", "0", "6", "8">>,
      <<"6", "9">>, <<"2", "0", "6", "9">>, <<"0", "0">>, <<"2", "0", "0", "0">>,
      <<"9", "9">>, <<"1", "9", "9", "9">>, <<"5">>, <<"0", "2", "5">> }

PubDateTexts ==
    [fmt : {"rfc822"}, wd : {"Wed"}, day : {10, 29, 31}, mon : {"Feb", "Jul"},
     year : PubDateYears, tz : {"+0000", "GMT"}]
    \cup { [fmt |-> "garbage"], [fmt |-> "empty"], [fmt |-> "none"] }

Clocks == { [date |-> <<2025, 7, 11>>, tz |-> "naive"],
            [date |-> <<2026, 1, 1>>, tz |-> "naive"] }

InitPubDate ==
    /\ call \in [fn : {"pub_date"}, pub_date : PubDateTexts, clock : Clocks]
    /\ ret = NotReturned
    /\ ReaderAtRest
    /\ EntitiesAtRest

\* Lines 242-254 of fetch_alerts, for one item of a monitored country.
CallParsePubDate ==
    /\ call.fn = "pub_date"
    /\ ~ret.returned
    /\ ret' = Returned(ParsePubDate(call.pub_date, call.clock))
    /\ UNCHANGED <<call, fetchVars>>

NextPubDate == CallParsePubDate

SpecPubDate == InitPubDate /\ [][NextPubDate]_vars

---------------------------------------------------------------------------
(* C9 *)

\* A text both date formats accept but for the digits of the year: a day of
\* its month, in the year the format reads from the digits.
DateWritten(text, year) ==
    /\ text.fmt = "rfc822"
    /\ text.tz \in {"+0000", "+0200"}
    /\ \E m \in 1..12 :
          /\ MonthNames[m] = text.mon
          /\ text.day \in 1..DaysInMonth(year, m)

MonthWritten(text) == CHOOSE m \in 1..12 : MonthNames[m] = text.mon

\* The same text with the year written in its last two digits.
TwoDigitSpelling(text) ==
    [text EXCEPT !.year = SubSeq(text.year, 3, 4)]

\* The publish instant is a datetime, found by the two-digit-year format
\* first, then the four-digit-year format, then the clock.
PublishInstantObtained ==
    /\ IsDatetime(ret.value)
    /\ LET text == call.pub_date
       IN  IF text.fmt = "rfc822" /\ Len(text.year) = 2
              /\ DateWritten(text, YearOfTwoDigits(PyInt(text.year)))
           THEN ret.value.date = <<YearOfTwoDigits(PyInt(text.year)),
                                   MonthWritten(text), text.day>>
           ELSE IF text.fmt = "rfc822" /\ Len(text.year) = 4
                   /\ DateWritten(text, PyInt(text.year))
           THEN ret.value.date = <<PyInt(text.year), MonthWritten(text), text.day>>
           ELSE ret.value = call.clock

\* C9 as stated: a publish instant is always obtained without raising (two
\* digits first, then four, then the clock), and the two-digit and the
\* four-digit spelling of the same date give the same calendar date.
C9_SameDateEverySpelling ==
    (call.fn = "pub_date" /\ ret.returned)
    => /\ PublishInstantObtained
       /\ ( /\ call.pub_date.fmt = "rfc822"
            /\ Len(call.pub_date.year) = 4
            /\ DateWritten(call.pub_date, PyInt(call.pub_date.year)) )
          => ParsePubDate(TwoDigitSpelling(call.pub_date), call.clock).date
                = ret.value.date

\* C9 (amended): a publish instant is always obtained without raising (two
\* digits first, then four, then the clock), and the two-digit and the
\* four-digit spelling of the same date give the same calendar date when
\* the year lies in 1969..2068, the years %y reads from two digits.
C9_SameDateInPivotWindow ==
    (call.fn = "pub_date" /\ ret.returned)
    => /\ PublishInstantObtained
       /\ ( /\ call.pub_date.fmt = "rfc822"
            /\ Len(call.pub_date.year) = 4
            /\ PyInt(call.pub_date.year) \in 1969..2068
            /\ DateWritten(call.pub_date, PyInt(call.pub_date.year)) )
          => ParsePubDate(TwoDigitSpelling(call.pub_date), call.clock).date
                = ret.value.date

\* "Wed, 10 Jul 2025 08:00:00 +0000" was parsed to 2025-07-10, the date its
\* two-digit spelling gives as well.
C9_Witness ==
    /\ call.fn = "pub_date"
    /\ call.pub_date = [fmt |-> "rfc822", wd |-> "Wed", day |-> 10, mon |-> "Jul",
                        year |-> <<"2", "0", "2", "5">>, tz |-> "+0000"]
    /\ ret.returned
    /\ ret.value.date = <<2025, 7, 10>>
    /\ ParsePubDate(TwoDigitSpelling(call.pub_date), call.clock).date = <<2025, 7, 10>>

---------------------------------------------------------------------------
(* Configuration *)

\* str.split(sep) for a separator of one character
RECURSIVE PySplit(_, _)
PySplit(s, sep) ==
    IF \E i \in DOMAIN s : s[i] = sep
    THEN LET first == CHOOSE i \in DOMAIN s :
                          s[i] = sep /\ \A j \in 1..(i - 1) : s[j] # sep
         IN  << SubSeq(s, 1, first - 1) >> \o PySplit(SubSeq(s, first + 1, Len(s)), sep)
    ELSE << s >>

\* async_step_user: user_input["countries"] after the form is submitted
ConfigFlowCountries(text) ==
    LET parts == PySplit(text, ",")
    IN  [i \in DOMAIN parts |-> PyLower(PyStrip(parts[i]))]

\* The 'countries' list the sensors pass to the reader.
SensorCountries(countries) == [i \in DOMAIN countries |-> PyLower(countries[i])]

\* What the user may type in the 'countries' field.
CountryInputs ==
    { <<"i", "t", "a", "l", "y", ",", " ", "s", "p", "a", "i", "n", ",">>,
      <<"U", "K", " ", ",", " ", "H", "o", "l", "l", "a", "n", "d">> }

MonitoredLists == { SensorCountries(ConfigFlowCountries(t)) : t \in CountryInputs }

\* The date ranges the reader is called with.
DateRanges ==
    { [start |-> [date |-> <<2025, 7, 1>>, tz |-> "naive"],
       end |-> [date |-> <<2025, 7, 31>>, tz |-> "naive"]],
      [start |-> [date |-> <<2025, 1, 1>>, tz |-> "naive"],
       end |-> [date |-> <<2025, 1, 1>>, tz |-> "naive"]] }

\* What datetime.now() answers during a fetch.
FetchClocks == { [date |-> <<2025, 7, 11>>, tz |-> "naive"] }

---------------------------------------------------------------------------
(* Feeds *)

\* Longest feed, in items.
MaxItems == 2

FeedTitles ==
    { <<"M", "e", "t", "e", "o", "a", "l", "a", "r", "m", " ", "I", "t", "a", "l", "y">>,
      <<"M", "e", "t", "e", "o", "A", "l", "a", "r", "m", " ", "U", "K">>,
      <<" ", " ">> }

IsoDay(d, zone) == [fmt |-> "iso", date |-> d, zone |-> zone]

FeedDescriptions ==
    { << [k |-> "level", d |-> <<"2">>], [k |-> "type", d |-> <<"1">>],
         [k |-> "period", from |-> IsoDay(<<2025, 1, 1>>, "Z"),
                          until |-> IsoDay(<<2025, 1, 2>>, "+00:00")] >>,
      << [k |-> "level", d |-> <<"2">>], [k |-> "text"],
         [k |-> "level", d |-> <<"5">>], [k |-> "type", d |-> <<"1", "3">>] >>,
      << [k |-> "level", d |-> <<"4">>], [k |-> "type", d |-> <<"1">>],
         [k |-> "level", d |-> <<"1">>], [k |-> "type", d |-> <<"1", "2">>],
         [k |-> "period", from |-> [fmt |-> "garbage"],
                          until |-> IsoDay(<<2025, 1, 1>>, "")] >> }

FeedPubDates ==
    { [fmt |-> "rfc822", wd |-> "Wed", day |-> 10, mon |-> "Jul",
       year |-> <<"2", "5">>, tz |-> "+0000"],
      [fmt |-> "garbage"] }

FeedLink == <<"l">>

FeedGuid == <<"g">>

\* The items of a feed: title, description and pubDate elements, each with
\* a text, empty (text None) or, for title and description, missing.
FeedItems ==
    [title : FeedTitles, description : FeedDescriptions, pub_date : FeedPubDates,
     link : {FeedLink}, guid : {FeedGuid}]
    \cup { [title |-> NoElement, description |-> <<>>,
            pub_date |-> [fmt |-> "empty"], link |-> FeedLink, guid |-> FeedGuid],
           [title |-> <<"I", "t", "a", "l", "y">>, description |-> NoneDescription,
            pub_date |-> [fmt |-> "none"], link |-> FeedLink, guid |-> FeedGuid] }

Feeds == SeqsUpTo(FeedItems, MaxItems)

---------------------------------------------------------------------------
(* fetch_alerts *)

(* A dict keyed by country is a sequence of entries in insertion order,    *)
(* each entry carrying its key in the field country.  The field            *)
(* 'description' of an alert, a truncation of raw_description that no      *)
(* operation of the reader reads back, is left out.                        *)

\* A ranking that puts 'unknown' above red.
LevelToNumericUnknownHighest(level) ==
    CASE level = "red" -> 4
      [] level = "orange" -> 3
      [] level = "yellow" -> 2
      [] level = "green" -> 1
      [] level = "white" -> 0
      [] level = "unknown" -> 5
      [] OTHER -> 0

\* _level_to_numeric
LevelToNumeric(level) ==
    CASE level = "red" -> 4
      [] level = "orange" -> 3
      [] level = "yellow" -> 2
      [] level = "green" -> 1
      [] level = "white" -> 0
      [] level = "unknown" -> 0
      [] OTHER -> 0

\* A monitored list that is used as the caller gave it.
MonitoredAsGiven(countries) == countries

\* normalized_countries of fetch_alerts
NormalizedCountries(countries) ==
    [i \in DOMAIN countries |-> NormalizeCountryName(countries[i])]

\* A guard that forgets to test the country for emptiness.
InNormalizedCountries(country, normalized_countries) ==
    \E i \in DOMAIN normalized_countries : normalized_countries[i] = country

\* A guard that forgets the monitored countries.
IsNamedCountry(country, normalized_countries) == Truthy(country)

\* 'country and country in normalized_countries'
IsMonitoredCountry(country, normalized_countries) ==
    /\ Truthy(country)
    /\ \E i \in DOMAIN normalized_countries : normalized_countries[i] = country

\* A loop that appends every type of the alert, known or not.
AppendTypes(known, types) == known \o types

\* The loop 'for alert_type in types' that adds the new types.
RECURSIVE AddNewTypes(_, _)
AddNewTypes(known, types) ==
    IF types = <<>>
    THEN known
    ELSE AddNewTypes(IF \E i \in DOMAIN known : known[i] = Head(types)
                     THEN known
                     ELSE Append(known, Head(types)),
                     Tail(types))

\* A grouping in which the level of the latest alert replaces the level.
GroupByCountryLatestLevel(mapping, alert) ==
    IF ~\E i \in DOMAIN mapping : mapping[i].country = alert.country
    THEN Append(mapping,
                [country |-> alert.country,
                 level |-> alert.level,
                 count |-> alert.alert_count,
                 alerts |-> << alert >>,
                 types |-> alert.types,
                 latest_date |-> alert.pub_date,
                 highest_level_numeric |-> LevelToNumeric(alert.level)])
    ELSE LET i == CHOOSE i \in DOMAIN mapping : mapping[i].country = alert.country
             old == mapping[i]
             higher == LevelToNumeric(alert.level) > old.highest_level_numeric
         IN  [mapping EXCEPT ![i] =
                [country |-> old.country,
                 level |-> alert.level,
                 count |-> old.count + alert.alert_count,
                 alerts |-> Append(old.alerts, alert),
                 types |-> AddNewTypes(old.types, alert.types),
                 latest_date |-> IF higher THEN alert.pub_date ELSE old.latest_date,
                 highest_level_numeric |-> LevelToNumeric(alert.level)]]

\* 'Group by country': the mapping after the alert is added.
GroupByCountry(mapping, alert) ==
    IF ~\E i \in DOMAIN mapping : mapping[i].country = alert.country
    THEN Append(mapping,
                [country |-> alert.country,
                 level |-> alert.level,
                 count |-> alert.alert_count,
                 alerts |-> << alert >>,
                 types |-> alert.types,
                 latest_date |-> alert.pub_date,
                 highest_level_numeric |-> LevelToNumeric(alert.level)])
    ELSE LET i == CHOOSE i \in DOMAIN mapping : mapping[i].country = alert.country
             old == mapping[i]
             higher == LevelToNumeric(alert.level) > old.highest_level_numeric
         IN  [mapping EXCEPT ![i] =
                [country |-> old.country,
                 level |-> IF higher THEN alert.level ELSE old.level,
                 count |-> old.count + alert.alert_count,
                 alerts |-> Append(old.alerts, alert),
                 types |-> AddNewTypes(old.types, alert.types),
                 latest_date |-> IF higher THEN alert.pub_date ELSE old.latest_date,
                 highest_level_numeric |->
                     IF higher THEN LevelToNumeric(alert.level)
                     ELSE old.highest_level_numeric]]

\* The alert object of an item of a monitored country.
AlertOf(item, title, description, country, types, clock) ==
    [country |-> country,
     title |-> title,
     level |-> ParseAwarenessLevelFromDescription(description),
     types |-> types,
     pub_date |-> item.pub_date,
     event_time |-> ParsePubDate(item.pub_date, clock),
     link |-> item.link,
     guid |-> item.guid,
     periods |-> ParseTimePeriods(description),
     alert_count |-> AlertCount(description),
     raw_description |-> description]

\* _LOGGER.error of an except clause of fetch_alerts, and _LOGGER.warning
\* of the except clause of the loop body for the item at that position.
ErrorLogged(what) == [level |-> "error", what |-> what, item |-> 0]

WarningLogged(position) == [level |-> "warning", what |-> "alert", item |-> position]

Init ==
    /\ call = NoCall
    /\ ret = NotReturned
    /\ ReaderAtRest
    /\ EntitiesAtRest

\* fetch_alerts is called; the clock is read.
CallFetchAlerts ==
    /\ pc = "idle"
    /\ monitored_countries' \in MonitoredLists
    /\ \E range \in DateRanges :
          /\ start_date' = range.start
          /\ end_date' = range.end
    /\ now' \in FetchClocks
    /\ pc' = "request"
    /\ UNCHANGED <<call, ret, feed, idx, alerts_by_country, result,
                   cached_data, last_update, log,
                   entityVars>>

\* An except clause that also empties the cache.
RequestFailsEmptiesCache ==
    /\ pc = "request"
    /\ log' = Append(log, ErrorLogged("network"))
    /\ result' = <<>>
    /\ cached_data' = <<>>
    /\ pc' = "returned"
    /\ UNCHANGED <<call, ret, monitored_countries, start_date, end_date, now,
                   feed, idx, alerts_by_country, last_update,
                   entityVars>>

\* requests.get or raise_for_status raises: log the error, return {}.
RequestFails ==
    /\ pc = "request"
    /\ log' = Append(log, ErrorLogged("network"))
    /\ result' = <<>>
    /\ pc' = "returned"
    /\ UNCHANGED <<call, ret, monitored_countries, start_date, end_date, now,
                   feed, idx, alerts_by_country, cached_data, last_update,
                   entityVars>>

\* ET.fromstring raises ParseError: log the error, return {}.
ParseFails ==
    /\ pc = "request"
    /\ log' = Append(log, ErrorLogged("xml"))
    /\ result' = <<>>
    /\ pc' = "returned"
    /\ UNCHANGED <<call, ret, monitored_countries, start_date, end_date, now,
                   feed, idx, alerts_by_country, cached_data, last_update,
                   entityVars>>

\* The response is parsed; the loop over its items starts.
ResponseParsed ==
    /\ pc = "request"
    /\ feed' \in Feeds
    /\ alerts_by_country' = <<>>
    /\ idx' = 0
    /\ pc' = "items"
    /\ UNCHANGED <<call, ret, monitored_countries, start_date, end_date, now,
                   result, cached_data, last_update, log,
                   entityVars>>

\* One iteration of 'for item in root.findall(...)'.
ProcessItem ==
    /\ pc = "items"
    /\ idx < Len(feed)
    /\ idx' = idx + 1
    /\ LET item == feed[idx + 1]
       IN  IF item.title = NoElement \/ item.description = NoElementDescription
           THEN alerts_by_country' = alerts_by_country
           ELSE LET title == IF item.title = None THEN <<>> ELSE item.title
                    description == IF item.description = NoneDescription
                                   THEN <<>> ELSE item.description
                    country == ExtractCountryFromTitle(title)
                IN  IF IsMonitoredCountry(country, NormalizedCountries(monitored_countries))
                    THEN \E types \in ParseAwarenessTypeFromDescription(description) :
                            LET alert == AlertOf(item, title, description, country,
                                                 types, now)
                            IN  IF IsAlertRelevant(alert.event_time, alert.periods,
                                                   start_date, end_date)
                                THEN alerts_by_country' =
                                        GroupByCountry(alerts_by_country, alert)
                                ELSE alerts_by_country' = alerts_by_country
                    ELSE alerts_by_country' = alerts_by_country
    /\ UNCHANGED <<call, ret, monitored_countries, start_date, end_date, now, pc,
                   feed, result, cached_data, last_update, log,
                   entityVars>>

\* 'Cache the results' and return the mapping.
CacheAndReturn ==
    /\ pc = "items"
    /\ idx = Len(feed)
    /\ cached_data' = alerts_by_country
    /\ last_update' = now
    /\ result' = alerts_by_country
    /\ pc' = "returned"
    /\ UNCHANGED <<call, ret, monitored_countries, start_date, end_date, now,
                   feed, idx, alerts_by_country, log,
                   entityVars>>

Next ==
    \/ CallFetchAlerts
    \/ RequestFails
    \/ ParseFails
    \/ ResponseParsed
    \/ ProcessItem
    \/ CacheAndReturn

Spec == Init /\ [][Next]_vars

---------------------------------------------------------------------------
(* C2, C4, C10 *)

\* The mappings fetch_alerts has built, returned or cached.
Mappings ==
    { alerts_by_country }
    \cup (IF result = NoneDict THEN {} ELSE { result })
    \cup (IF cached_data = NoneDict THEN {} ELSE { cached_data })

\* The alerts of a mapping.
AlertsOf(mapping) ==
    UNION { { mapping[i].alerts[j] : j \in DOMAIN mapping[i].alerts } :
              i \in DOMAIN mapping }

\* The successful return of fetch_alerts.
FetchSucceeded == pc = "returned" /\ last_update # NoneValue

\* C2: an empty or falsy country resolves to the empty string, and an item
\* whose title resolves to the empty string is in no mapping of
\* fetch_alerts, also when the monitored list holds an empty entry.
C2_EmptyCountryNeverAdded ==
    /\ NormalizeCountryName(<<>>) = <<>>
    /\ NormalizeCountryName(None) = <<>>
    /\ \A mapping \in Mappings :
          /\ \A i \in DOMAIN mapping : mapping[i].country # <<>>
          /\ \A alert \in AlertsOf(mapping) :
                alert.country # <<>> /\ ResolutionOf(alert.title) # <<>>

\* A fetch for a monitored list with an empty entry took an item with a
\* blank title and one of a monitored country, and returned the latter.
C2_Witness ==
    /\ FetchSucceeded
    /\ \E i \in DOMAIN monitored_countries : monitored_countries[i] = <<>>
    /\ Len(feed) = 2
    /\ feed[1].title = <<" ", " ">>
    /\ ResolutionOf(feed[2].title) = <<"i", "t", "a", "l", "y">>
    /\ Len(result) = 1

SeverityLevels == {"green", "yellow", "orange", "red", "unknown"}

\* C4: the severity of every alert and of every country of a mapping of
\* fetch_alerts is green, yellow, orange, red or unknown; an alert whose
\* highest level marker is outside 1..4 has the severity unknown, also when
\* its description holds markers in 1..4.
C4_SeverityAlwaysDefined ==
    \A mapping \in Mappings :
        /\ \A i \in DOMAIN mapping : mapping[i].level \in SeverityLevels
        /\ \A alert \in AlertsOf(mapping) :
              /\ alert.level \in SeverityLevels
              /\ ( /\ LevelNumbers(alert.raw_description) # {}
                   /\ HighestOf(LevelNumbers(alert.raw_description)) \notin 1..4 )
                 => alert.level = "unknown"

\* An alert with the markers 2 and 5 was returned with the severity unknown.
C4_Witness ==
    /\ FetchSucceeded
    /\ \E alert \in AlertsOf(result) :
          /\ LevelNumbers(alert.raw_description) = {2, 5}
          /\ alert.level = "unknown"

\* The monitored countries as the spec normalizes them (4.1).
NormalizedMonitoredSet ==
    { LET c == TrimmedText(PyLower(monitored_countries[i]))
      IN  IF \E p \in country_mappings : p[1] = c
          THEN (CHOOSE p \in country_mappings : p[1] = c)[2]
          ELSE c
      : i \in DOMAIN monitored_countries }

\* C10: no key of a mapping of fetch_alerts, and no country of an alert in
\* it, is outside the normalized monitored set; the items of other
\* countries are passed over without an error: the loop takes every item
\* and the fetch returns its mapping.
C10_OnlyMonitoredCountries ==
    /\ \A mapping \in Mappings :
          /\ \A i \in DOMAIN mapping : mapping[i].country \in NormalizedMonitoredSet
          /\ \A alert \in AlertsOf(mapping) : alert.country \in NormalizedMonitoredSet
    /\ (pc = "items" /\ idx = Len(feed)) => ENABLED CacheAndReturn
    /\ FetchSucceeded => (idx = Len(feed) /\ result = alerts_by_country)

\* A fetch took a red item of a country that is not monitored and an item
\* of a monitored country, and returned only the latter.
C10_Witness ==
    /\ FetchSucceeded
    /\ Len(feed) = 2
    /\ ResolutionOf(feed[1].title) \notin NormalizedMonitoredSet
    /\ ResolutionOf(feed[1].title) # <<>>
    /\ ParseAwarenessLevelFromDescription(feed[1].description) = "red"
    /\ ResolutionOf(feed[2].title) \in NormalizedMonitoredSet
    /\ Len(result) = 1

---------------------------------------------------------------------------
(* C11 *)

\* The names the table of the resolver rewrites.
Synonyms == { p[1] : p \in country_mappings }

\* The items the loop has taken that have a title and a description element.
TakenItems ==
    { i \in 1..idx : /\ feed[i].title # NoElement
                     /\ feed[i].description # NoElementDescription }

\* The text of the description element ('' when the element is empty).
DescriptionText(item) ==
    IF item.description = NoneDescription THEN <<>> ELSE item.description

\* The item is relevant to the date range of the running call.
ItemRelevant(item) ==
    IsAlertRelevant(ParsePubDate(item.pub_date, now),
                    ParseTimePeriods(DescriptionText(item)),
                    start_date, end_date)

\* The mapping holds, under the key, an alert made of the item.
HeldUnder(mapping, key, item) ==
    \E k \in DOMAIN mapping :
        /\ mapping[k].country = key
        /\ \E j \in DOMAIN mapping[k].alerts :
              /\ mapping[k].alerts[j].title = item.title
              /\ mapping[k].alerts[j].raw_description = DescriptionText(item)
              /\ mapping[k].alerts[j].pub_date = item.pub_date
              /\ mapping[k].alerts[j].country = key

\* C11: every relevant item the loop has taken whose title resolves to the
\* canonical key of a monitored entry, also of an entry given as a synonym,
\* is held in the mapping under that canonical key; no key of a mapping is
\* a synonym of the table.
C11_SynonymsRetainCanonicalKey ==
    /\ \A i \in TakenItems :
          LET key == ResolutionOf(feed[i].title)
          IN  (key # <<>> /\ key \in NormalizedMonitoredSet /\ ItemRelevant(feed[i]))
              => HeldUnder(alerts_by_country, key, feed[i])
    /\ \A mapping \in Mappings :
          \A k \in DOMAIN mapping : mapping[k].country \notin Synonyms

\* The monitored list names 'uk' and 'holland'; a relevant item titled
\* 'MeteoAlarm UK' was returned under the key 'united kingdom'.
C11_Witness ==
    /\ FetchSucceeded
    /\ \E i \in DOMAIN monitored_countries : monitored_countries[i] = <<"u", "k">>
    /\ \E i \in TakenItems :
          /\ ResolutionOf(feed[i].title) =
                <<"u", "n", "i", "t", "e", "d", " ", "k", "i", "n", "g", "d", "o", "m">>
          /\ ItemRelevant(feed[i])
    /\ \E k \in DOMAIN result :
          result[k].country =
             <<"u", "n", "i", "t", "e", "d", " ", "k", "i", "n", "g", "d", "o", "m">>

---------------------------------------------------------------------------
(* Aggregation: fetches whose items are all retained *)

\* Both countries of the feed are monitored.
AggregationMonitored ==
    SensorCountries(ConfigFlowCountries(
        <<"I", "t", "a", "l", "y", ",", "u", "k">>))

\* Descriptions without a marker, with one green marker, with two yellow
\* markers and with one red marker.
AggregationDescriptions ==
    { << [k |-> "text"] >>,
      << [k |-> "level", d |-> <<"1">>], [k |-> "type", d |-> <<"1">>] >>,
      << [k |-> "level", d |-> <<"2">>], [k |-> "type", d |-> <<"1">>],
         [k |-> "level", d |-> <<"2">>], [k |-> "type", d |-> <<"2">>] >>,
      << [k |-> "level", d |-> <<"4">>], [k |-> "type", d |-> <<"1", "3">>] >> }

\* Two publish dates inside the date range.
AggregationPubDates ==
    { [fmt |-> "rfc822", wd |-> "Wed", day |-> 9, mon |-> "Jul",
       year |-> <<"2", "5">>, tz |-> "+0000"],
      [fmt |-> "rfc822", wd |-> "Thu", day |-> 10, mon |-> "Jul",
       year |-> <<"2", "5">>, tz |-> "+0000"] }

AggregationItems ==
    [title : { t \in FeedTitles : ExtractCountryFromTitle(t) # <<>> },
     description : AggregationDescriptions,
     pub_date : AggregationPubDates,
     link : {FeedLink}, guid : {FeedGuid}]

AggregationFeeds == SeqsUpTo(AggregationItems, MaxItems)

\* fetch_alerts is called for both countries and for July 2025.
CallFetchAlertsForBoth ==
    /\ pc = "idle"
    /\ monitored_countries' = AggregationMonitored
    /\ start_date' = [date |-> <<2025, 7, 1>>, tz |-> "naive"]
    /\ end_date' = [date |-> <<2025, 7, 31>>, tz |-> "naive"]
    /\ now' \in FetchClocks
    /\ pc' = "request"
    /\ UNCHANGED <<call, ret, feed, idx, alerts_by_country, result,
                   cached_data, last_update, log,
                   entityVars>>

\* The response is parsed; the loop over its items starts.
AggregationResponseParsed ==
    /\ pc = "request"
    /\ feed' \in AggregationFeeds
    /\ alerts_by_country' = <<>>
    /\ idx' = 0
    /\ pc' = "items"
    /\ UNCHANGED <<call, ret, monitored_countries, start_date, end_date, now,
                   result, cached_data, last_update, log,
                   entityVars>>

NextAggregation ==
    \/ CallFetchAlertsForBoth
    \/ AggregationResponseParsed
    \/ ProcessItem
    \/ CacheAndReturn

SpecAggregation == Init /\ [][NextAggregation]_vars

---------------------------------------------------------------------------
(* C12 *)

\* The order unknown < green < yellow < orange < red.
SeverityRank(level) ==
    CASE level = "unknown" -> 0
      [] level = "green" -> 1
      [] level = "yellow" -> 2
      [] level = "orange" -> 3
      [] level = "red" -> 4

\* The running step appends an alert to the entry at position k.
EntryGrew(k) ==
    /\ k \in DOMAIN alerts_by_country
    /\ k \in DOMAIN alerts_by_country'
    /\ alerts_by_country'[k].country = alerts_by_country[k].country
    /\ Len(alerts_by_country'[k].alerts) = Len(alerts_by_country[k].alerts) + 1

\* The alert the step appends.
NewAlert(k) == alerts_by_country'[k].alerts[Len(alerts_by_country'[k].alerts)]

\* The level of the entry is the maximum of the levels of its alerts and
\* highest_level_numeric is its rank.
LevelIsMaximum(entry) ==
    /\ \E j \in DOMAIN entry.alerts : entry.alerts[j].level = entry.level
    /\ \A j \in DOMAIN entry.alerts :
          SeverityRank(entry.alerts[j].level) <= SeverityRank(entry.level)
    /\ entry.highest_level_numeric = SeverityRank(entry.level)

\* An alert of equal or lower severity leaves the level as it was.
LowerLeavesLevel ==
    \A k \in DOMAIN alerts_by_country :
        ( /\ EntryGrew(k)
          /\ SeverityRank(NewAlert(k).level) <= SeverityRank(alerts_by_country[k].level) )
        => alerts_by_country'[k].level = alerts_by_country[k].level

\* C12: in every mapping of fetch_alerts the level of each country is the
\* maximum, in the order unknown < green < yellow < orange < red, of the
\* levels of its alerts, whatever the order of the items;
\* highest_level_numeric is the rank of the level; an alert of equal or
\* lower severity never changes the level.
C12_LevelIsMaximum ==
    /\ [](\A mapping \in Mappings :
             \A k \in DOMAIN mapping : LevelIsMaximum(mapping[k]))
    /\ [][LowerLeavesLevel]_vars

\* A red alert, then a green one of the same country: the level is red.
C12_Witness ==
    /\ FetchSucceeded
    /\ \E k \in DOMAIN result :
          /\ Len(result[k].alerts) = 2
          /\ result[k].alerts[1].level = "red"
          /\ result[k].alerts[2].level = "green"
          /\ result[k].level = "red"
          /\ result[k].highest_level_numeric = 4

---------------------------------------------------------------------------
(* C13 *)

\* The multiplicity of an alert: the number of severity markers of its
\* description, 1 when there are none.
Multiplicity(alert) ==
    LET markers == { i \in DOMAIN alert.raw_description :
                        /\ alert.raw_description[i].k = "level"
                        /\ alert.raw_description[i].d # <<>> }
    IN  IF markers = {} THEN 1 ELSE Cardinality(markers)

RECURSIVE SumOfMultiplicities(_)
SumOfMultiplicities(alerts) ==
    IF alerts = <<>> THEN 0
    ELSE Multiplicity(Head(alerts)) + SumOfMultiplicities(Tail(alerts))

\* C13: in every mapping fetch_alerts returns, the count of each country is
\* the sum of the multiplicities of its alerts, and
\* count >= number of alerts >= 1.
C13_CountIsSumOfMultiplicities ==
    FetchSucceeded =>
        \A k \in DOMAIN result :
            /\ result[k].count = SumOfMultiplicities(result[k].alerts)
            /\ result[k].count >= Len(result[k].alerts)
            /\ Len(result[k].alerts) >= 1

\* An alert with two severity markers and one with none: the count is 3.
C13_Witness ==
    /\ FetchSucceeded
    /\ \E k \in DOMAIN result :
          /\ Len(result[k].alerts) = 2
          /\ Multiplicity(result[k].alerts[1]) = 2
          /\ LevelNumbers(result[k].alerts[2].raw_description) = {}
          /\ result[k].count = 3

---------------------------------------------------------------------------
(* C14 *)

\* The elements of a list.
Elements(list) == { list[i] : i \in DOMAIN list }

NoDuplicates(list) ==
    \A i, j \in DOMAIN list : list[i] = list[j] => i = j

\* The hazard types the description of an alert names.
HazardTypesOf(alert) ==
    IF TypeCodes(alert.raw_description) = {}
    THEN { <<"unknown">> }
    ELSE { LabelOfCode(code) : code \in TypeCodes(alert.raw_description) }

\* The types of the entry are, without duplicates, the union of the types
\* of its alerts, and each alert carries the types of its own description.
TypesAreUnion(entry) ==
    /\ NoDuplicates(entry.types)
    /\ Elements(entry.types) =
          UNION { Elements(entry.alerts[j].types) : j \in DOMAIN entry.alerts }
    /\ \A j \in DOMAIN entry.alerts :
          /\ NoDuplicates(entry.alerts[j].types)
          /\ Elements(entry.alerts[j].types) = HazardTypesOf(entry.alerts[j])

\* A step keeps every type of every country and keeps every alert as it was.
TypesAndAlertsKept ==
    pc = "items" =>
       \A k \in DOMAIN alerts_by_country :
          /\ k \in DOMAIN alerts_by_country'
          /\ alerts_by_country'[k].country = alerts_by_country[k].country
          /\ Elements(alerts_by_country[k].types) \subseteq
                Elements(alerts_by_country'[k].types)
          /\ \A j \in DOMAIN alerts_by_country[k].alerts :
                /\ j \in DOMAIN alerts_by_country'[k].alerts
                /\ alerts_by_country'[k].alerts[j] = alerts_by_country[k].alerts[j]

\* C14: in every mapping of fetch_alerts the types of each country hold no
\* duplicate and are, as a set, the union of the types of its alerts; a step
\* that adds an item removes no type of a country and alters the types of
\* no alert.
C14_TypesAreUnion ==
    /\ [](\A mapping \in Mappings :
             \A k \in DOMAIN mapping : TypesAreUnion(mapping[k]))
    /\ [][TypesAndAlertsKept]_vars

\* Two alerts of one country share the type wind; the second brings
\* another type: the country has each type once and the first alert still
\* has its own types only.
C14_Witness ==
    /\ FetchSucceeded
    /\ \E k \in DOMAIN result :
          /\ Len(result[k].alerts) = 2
          /\ Elements(result[k].alerts[1].types) = { <<"wind">> }
          /\ <<"wind">> \in Elements(result[k].alerts[2].types)
          /\ Len(result[k].alerts[2].types) = 2
          /\ Len(result[k].types) = 2

---------------------------------------------------------------------------
(* C15 *)

\* The level of the entry is unknown exactly when all its alerts are.
UnknownOnlyWhenAllUnknown(entry) ==
    entry.level = "unknown"
        <=> \A j \in DOMAIN entry.alerts : entry.alerts[j].level = "unknown"

\* An unknown alert leaves a known level; a green alert raises an unknown
\* level to green.
UnknownIsLowest ==
    \A k \in DOMAIN alerts_by_country :
        EntryGrew(k) =>
            /\ ( /\ NewAlert(k).level = "unknown"
                 /\ alerts_by_country[k].level # "unknown" )
               => alerts_by_country'[k].level = alerts_by_country[k].level
            /\ ( /\ NewAlert(k).level = "green"
                 /\ alerts_by_country[k].level = "unknown" )
               => alerts_by_country'[k].level = "green"

\* C15: unknown is the lowest severity of the aggregation: the level of a
\* country is unknown if and only if each of its alerts is unknown; an
\* unknown alert after a known one never changes the level; a green alert
\* after an unknown one raises the level to green.
C15_UnknownIsLowest ==
    /\ [](\A mapping \in Mappings :
             \A k \in DOMAIN mapping : UnknownOnlyWhenAllUnknown(mapping[k]))
    /\ [][UnknownIsLowest]_vars

\* An unknown alert, then a green one of the same country: the level is
\* green.
C15_Witness ==
    /\ FetchSucceeded
    /\ \E k \in DOMAIN result :
          /\ Len(result[k].alerts) = 2
          /\ result[k].alerts[1].level = "unknown"
          /\ result[k].alerts[2].level = "green"
          /\ result[k].level = "green"

---------------------------------------------------------------------------
(* C16 *)

\* The alert was published no earlier than every alert of the list.
MostRecentOf(alert, alerts) ==
    \A j \in DOMAIN alerts :
        DateLessEq(alerts[j].event_time.date, alert.event_time.date)

\* C16: in every mapping fetch_alerts returns, the latest_date of each
\* country is the publish date of a most recently published alert of that
\* country.
C16_LatestDateIsMostRecent ==
    FetchSucceeded =>
        \A k \in DOMAIN result :
            \E j \in DOMAIN result[k].alerts :
                /\ result[k].alerts[j].pub_date = result[k].latest_date
                /\ MostRecentOf(result[k].alerts[j], result[k].alerts)

---------------------------------------------------------------------------
(* The reader over several calls: fetch_alerts, get_alerts_for_sensor and  *)
(* get_alerts_for_camera                                                   *)

\* Most calls of the reader in one behaviour.
MaxFetches == 2

\* ', '.join(types), 'unknown' for an empty list
RECURSIVE JoinTypes(_)
JoinTypes(types) ==
    IF types = <<>> THEN <<>>
    ELSE IF Len(types) = 1 THEN Head(types)
    ELSE Head(types) \o <<", ">> \o JoinTypes(Tail(types))

\* A flattening that takes every alert once.
SensorAlertOnce(country, alert) ==
    << [country |-> country,
        event |-> alert.title,
        level |-> alert.level,
        type |-> IF alert.types # <<>> THEN JoinTypes(alert.types) ELSE <<"unknown">>,
        description |-> alert.raw_description,
        pub_date |-> alert.pub_date,
        link |-> alert.link] >>

\* The sensor alerts of one alert: alert_count copies.  'description' is
\* the first 500 characters of raw_description; the descriptions of the
\* feeds are shorter.
SensorAlertsOfAlert(country, alert) ==
    [i \in 1..alert.alert_count |->
        [country |-> country,
         event |-> alert.title,
         level |-> alert.level,
         type |-> IF alert.types # <<>> THEN JoinTypes(alert.types) ELSE <<"unknown">>,
         description |-> alert.raw_description,
         pub_date |-> alert.pub_date,
         link |-> alert.link]]

RECURSIVE SensorAlertsOfAlerts(_, _)
SensorAlertsOfAlerts(country, alerts) ==
    IF alerts = <<>> THEN <<>>
    ELSE SensorAlertsOfAlert(country, Head(alerts))
            \o SensorAlertsOfAlerts(country, Tail(alerts))

RECURSIVE SensorAlerts(_)
SensorAlerts(alerts_data) ==
    IF alerts_data = <<>> THEN <<>>
    ELSE SensorAlertsOfAlerts(Head(alerts_data).country, Head(alerts_data).alerts)
            \o SensorAlerts(Tail(alerts_data))

\* What get_alerts_for_sensor makes of the mapping fetch_alerts returned.
SensorShape(alerts_data) ==
    [alerts |-> SensorAlerts(alerts_data),
     total_count |-> Len(SensorAlerts(alerts_data)),
     countries_affected |-> Len(alerts_data),
     alerts_by_country |-> alerts_data]

\* A camera shape with the periods of the last alert of each country.
CameraShapeLastPeriods(alerts_data) ==
    [k \in DOMAIN alerts_data |->
        [country |-> alerts_data[k].country,
         level |-> alerts_data[k].level,
         count |-> alerts_data[k].count,
         types |-> alerts_data[k].types,
         titles |-> [j \in DOMAIN alerts_data[k].alerts |->
                        alerts_data[k].alerts[j].title],
         latest_date |-> alerts_data[k].latest_date,
         periods |-> IF alerts_data[k].alerts # <<>>
                     THEN alerts_data[k].alerts[Len(alerts_data[k].alerts)].periods
                     ELSE <<>>]]

\* What get_alerts_for_camera makes of the mapping fetch_alerts returned.
CameraShape(alerts_data) ==
    [k \in DOMAIN alerts_data |->
        [country |-> alerts_data[k].country,
         level |-> alerts_data[k].level,
         count |-> alerts_data[k].count,
         types |-> alerts_data[k].types,
         titles |-> [j \in DOMAIN alerts_data[k].alerts |->
                        alerts_data[k].alerts[j].title],
         latest_date |-> alerts_data[k].latest_date,
         periods |-> IF alerts_data[k].alerts # <<>>
                     THEN alerts_data[k].alerts[1].periods
                     ELSE <<>>]]

ReaderMethods == {"fetch_alerts", "get_alerts_for_sensor", "get_alerts_for_camera"}

\* The number of the running call, counted by the clock: the calls are a
\* day apart, the first on 11 July 2025.
FetchNumber == IF now = NoneValue THEN 0 ELSE now.date[3] - 10

ClockOfFetch(n) == [date |-> <<2025, 7, 10 + n>>, tz |-> "naive"]

\* A yellow item of Italy, a red item of the United Kingdom and an item
\* without a title element.
ItalyItem ==
    [title |-> <<"M", "e", "t", "e", "o", "a", "l", "a", "r", "m", " ", "I", "t", "a", "l", "y">>,
     description |-> << [k |-> "level", d |-> <<"2">>], [k |-> "type", d |-> <<"1">>] >>,
     pub_date |-> [fmt |-> "rfc822", wd |-> "Wed", day |-> 9, mon |-> "Jul",
                   year |-> <<"2", "5">>, tz |-> "+0000"],
     link |-> FeedLink, guid |-> FeedGuid]

UKItem ==
    [title |-> <<"M", "e", "t", "e", "o", "A", "l", "a", "r", "m", " ", "U", "K">>,
     description |-> << [k |-> "level", d |-> <<"4">>], [k |-> "type", d |-> <<"1", "3">>] >>,
     pub_date |-> [fmt |-> "rfc822", wd |-> "Thu", day |-> 10, mon |-> "Jul",
                   year |-> <<"2", "5">>, tz |-> "+0000"],
     link |-> FeedLink, guid |-> FeedGuid]

UntitledItem ==
    [title |-> NoElement, description |-> <<>>,
     pub_date |-> [fmt |-> "empty"], link |-> FeedLink, guid |-> FeedGuid]

ReaderFeeds ==
    { <<>>, << UKItem >>, << ItalyItem, UKItem >>, << UntitledItem, ItalyItem >> }

\* A method of the reader is called; the call before it has returned.
CallReaderMethod ==
    /\ \/ pc = "idle"
       \/ pc = "done"
       \/ pc = "returned" /\ call.fn = "fetch_alerts"
    /\ FetchNumber < MaxFetches
    /\ call' \in { [fn |-> method] : method \in ReaderMethods }
    /\ monitored_countries' = AggregationMonitored
    /\ start_date' = [date |-> <<2025, 7, 1>>, tz |-> "naive"]
    /\ end_date' = [date |-> <<2025, 7, 31>>, tz |-> "naive"]
    /\ now' = ClockOfFetch(FetchNumber + 1)
    /\ pc' = "request"
    /\ feed' = <<>>
    /\ idx' = 0
    /\ alerts_by_country' = <<>>
    /\ result' = NoneDict
    /\ log' = <<>>
    /\ UNCHANGED <<ret, cached_data, last_update,
                   entityVars>>

\* An exception that escapes from fetch_alerts.
UnexpectedPropagates ==
    /\ pc = "request"
    /\ pc' = "raised"
    /\ UNCHANGED <<call, ret, monitored_countries, start_date, end_date, now,
                   feed, idx, alerts_by_country, result, cached_data,
                   last_update, log,
                   entityVars>>

\* Another exception is raised before the loop: log the error, return {}.
UnexpectedFails ==
    /\ pc = "request"
    /\ log' = Append(log, ErrorLogged("unexpected"))
    /\ result' = <<>>
    /\ pc' = "returned"
    /\ UNCHANGED <<call, ret, monitored_countries, start_date, end_date, now,
                   feed, idx, alerts_by_country, cached_data, last_update,
                   entityVars>>

\* A loop that starts from the cached mapping.
ReaderResponseParsedOntoCache ==
    /\ pc = "request"
    /\ feed' \in ReaderFeeds
    /\ alerts_by_country' = IF cached_data = NoneDict THEN <<>> ELSE cached_data
    /\ idx' = 0
    /\ pc' = "items"
    /\ UNCHANGED <<call, ret, monitored_countries, start_date, end_date, now,
                   result, cached_data, last_update, log,
                   entityVars>>

\* The response is parsed; the loop over its items starts.
ReaderResponseParsed ==
    /\ pc = "request"
    /\ feed' \in ReaderFeeds
    /\ alerts_by_country' = <<>>
    /\ idx' = 0
    /\ pc' = "items"
    /\ UNCHANGED <<call, ret, monitored_countries, start_date, end_date, now,
                   result, cached_data, last_update, log,
                   entityVars>>

\* The item reaches the try block of the loop body.
ReachesTryBlock(item) ==
    /\ item.title # NoElement
    /\ item.description # NoElementDescription
    /\ IsMonitoredCountry(
          ExtractCountryFromTitle(IF item.title = None THEN <<>> ELSE item.title),
          NormalizedCountries(monitored_countries))

\* An exception of an item that ends the whole fetch.
ItemFailureEndsFetch ==
    /\ pc = "items"
    /\ idx < Len(feed)
    /\ ReachesTryBlock(feed[idx + 1])
    /\ log' = Append(log, WarningLogged(idx + 1))
    /\ result' = <<>>
    /\ pc' = "returned"
    /\ UNCHANGED <<call, ret, monitored_countries, start_date, end_date, now,
                   feed, idx, alerts_by_country, cached_data, last_update,
                   entityVars>>

\* One iteration of the loop in which the try block raises before the
\* grouping (lines 242-283): log a warning, continue with the next item.
\* The statements of the grouping (lines 285-311) work on the dict, lists,
\* strings and integers built above and raise nothing.
ProcessItemRaises ==
    /\ pc = "items"
    /\ idx < Len(feed)
    /\ ReachesTryBlock(feed[idx + 1])
    /\ log' = Append(log, WarningLogged(idx + 1))
    /\ idx' = idx + 1
    /\ UNCHANGED <<call, ret, monitored_countries, start_date, end_date, now, pc,
                   feed, alerts_by_country, result, cached_data, last_update,
                   entityVars>>

\* get_alerts_for_sensor returns its shape of the mapping.
ReturnSensorShape ==
    /\ pc = "returned"
    /\ call.fn = "get_alerts_for_sensor"
    /\ ret' = ReturnedFrom(call.fn, SensorShape(result))
    /\ pc' = "done"
    /\ UNCHANGED <<call, monitored_countries, start_date, end_date, now, feed,
                   idx, alerts_by_country, result, cached_data, last_update, log,
                   entityVars>>

\* get_alerts_for_camera returns its shape of the mapping.
ReturnCameraShape ==
    /\ pc = "returned"
    /\ call.fn = "get_alerts_for_camera"
    /\ ret' = ReturnedFrom(call.fn, CameraShape(result))
    /\ pc' = "done"
    /\ UNCHANGED <<call, monitored_countries, start_date, end_date, now, feed,
                   idx, alerts_by_country, result, cached_data, last_update, log,
                   entityVars>>

NextReader ==
    \/ CallReaderMethod
    \/ RequestFails
    \/ ParseFails
    \/ UnexpectedFails
    \/ ReaderResponseParsed
    \/ ProcessItem
    \/ ProcessItemRaises
    \/ CacheAndReturn
    \/ ReturnSensorShape
    \/ ReturnCameraShape

SpecReader == Init /\ [][NextReader]_vars

---------------------------------------------------------------------------
(* C17 *)

ErrorInLog == \E n \in DOMAIN log : log[n].level = "error"

\* fetch_alerts has returned, and so has the method called if it is another.
FetchReturned == pc \in {"returned", "done"}

EmptySensorShape ==
    [alerts |-> <<>>, total_count |-> 0, countries_affected |-> 0,
     alerts_by_country |-> <<>>]

\* C17: no call of fetch_alerts, get_alerts_for_sensor or
\* get_alerts_for_camera ends in an exception: every call is at a position
\* of the method or has returned, and a fetch that has returned has
\* returned a mapping; after a network failure, an XML parse failure or
\* another error the mapping is empty, the sensor shape has no alert, the
\* total 0 and 0 countries, and the camera shape is the empty mapping.
C17_NoExceptionPropagates ==
    /\ pc \in {"idle", "request", "items", "returned", "done"}
    /\ FetchReturned => result # NoneDict
    /\ (pc = "returned" /\ call.fn = "get_alerts_for_sensor") => ENABLED ReturnSensorShape
    /\ (pc = "returned" /\ call.fn = "get_alerts_for_camera") => ENABLED ReturnCameraShape
    /\ (FetchReturned /\ ErrorInLog) =>
          /\ result = <<>>
          /\ (pc = "done" /\ call.fn = "get_alerts_for_sensor")
                => ret.value = EmptySensorShape
          /\ (pc = "done" /\ call.fn = "get_alerts_for_camera")
                => ret.value = <<>>

\* After a fetch that cached a country, get_alerts_for_sensor met an
\* unexpected error and returned the empty sensor shape.
C17_Witness ==
    /\ pc = "done"
    /\ call.fn = "get_alerts_for_sensor"
    /\ \E n \in DOMAIN log : log[n] = ErrorLogged("unexpected")
    /\ cached_data # NoneDict
    /\ Len(cached_data) >= 1
    /\ ret.value.total_count = 0
    /\ ret.value.alerts = <<>>

---------------------------------------------------------------------------
(* C18 *)

LacksElement(item) ==
    item.title = NoElement \/ item.description = NoElementDescription

\* The items the loop has taken that add an alert to the mapping: those
\* with both elements, of a monitored country, relevant to the date range,
\* whose processing did not fail.
Contributing ==
    { i \in TakenItems :
        /\ ~\E n \in DOMAIN log : log[n] = WarningLogged(i)
        /\ ResolutionOf(feed[i].title) # <<>>
        /\ ResolutionOf(feed[i].title) \in NormalizedMonitoredSet
        /\ ItemRelevant(feed[i]) }

\* The number of alerts of a mapping.
AlertTotal(mapping) ==
    Cardinality({ <<k, j>> \in (DOMAIN mapping) \X (1..Len(feed)) :
                     j \in DOMAIN mapping[k].alerts })

\* The loop takes an item that lacks an element, or fails on an item.
ItemSkippedOrFailed ==
    /\ pc = "items"
    /\ idx < Len(feed)
    /\ LacksElement(feed[idx + 1]) \/ Len(log') > Len(log)

\* C18: a step of the loop that fails on an item, or takes an item without
\* a title or description element, changes no country aggregate and goes
\* on with the next item; the alerts of the mapping are those of the other
\* items; a fetch in which an item failed returns as a successful fetch:
\* every item was taken, no error is logged, and the mapping built is
\* returned and cached with the time of the call.
C18_ItemFailureIsLocal ==
    /\ [][ItemSkippedOrFailed =>
             /\ alerts_by_country' = alerts_by_country
             /\ idx' = idx + 1
             /\ pc' = "items"]_vars
    /\ [](/\ pc \in {"items", "returned", "done"}
             => AlertTotal(alerts_by_country) = Cardinality(Contributing)
          /\ (FetchReturned /\ \E n \in DOMAIN log : log[n].level = "warning")
                => /\ ~ErrorInLog
                   /\ idx = Len(feed)
                   /\ result = alerts_by_country
                   /\ cached_data = result
                   /\ last_update = now)

\* The first item of the feed failed, the second was taken and the fetch
\* returned the mapping with the country of the second alone.
C18_Witness ==
    /\ pc = "returned"
    /\ Len(feed) = 2
    /\ log = << WarningLogged(1) >>
    /\ Len(result) = 1
    /\ result[1].alerts[1].title = feed[2].title
    /\ cached_data = result

---------------------------------------------------------------------------
(* C19 *)

\* fetch_alerts has returned the mapping it built.
SuccessfulReturn == FetchReturned /\ ~ErrorInLog

\* The alert is made of the item.
MadeOf(alert, item) ==
    /\ alert.title = item.title
    /\ alert.raw_description = DescriptionText(item)
    /\ alert.pub_date = item.pub_date

\* Every part of the mapping comes from the items of the running fetch.
FreshSnapshot(mapping) ==
    /\ AlertTotal(mapping) = Cardinality(Contributing)
    /\ \A k1, k2 \in DOMAIN mapping :
          mapping[k1].country = mapping[k2].country => k1 = k2
    /\ \A k \in DOMAIN mapping :
          /\ Len(mapping[k].alerts) >= 1
          /\ \A j \in DOMAIN mapping[k].alerts :
                \E i \in Contributing :
                    /\ MadeOf(mapping[k].alerts[j], feed[i])
                    /\ ResolutionOf(feed[i].title) = mapping[k].country
          /\ mapping[k].count = SumOfMultiplicities(mapping[k].alerts)
          /\ Elements(mapping[k].types) =
                UNION { HazardTypesOf(mapping[k].alerts[j]) :
                           j \in DOMAIN mapping[k].alerts }
          /\ LevelIsMaximum(mapping[k])

\* C19: after every successful fetch_alerts call cached_data is the mapping
\* the call returned and last_update is the time of the call; every
\* country, alert, count, type and level of the snapshot comes from the
\* items of that fetch, and a country of an earlier snapshot without an
\* item now is not in it.
C19_SnapshotReplacedWholesale ==
    SuccessfulReturn =>
        /\ cached_data = result
        /\ last_update = now
        /\ FreshSnapshot(cached_data)

\* The call before returned a sensor shape with a country; this call
\* fetched a feed without items and cached the empty mapping.
C19_Witness ==
    /\ pc = "returned"
    /\ ~ErrorInLog
    /\ FetchNumber = 2
    /\ ret.returned
    /\ ret.method = "get_alerts_for_sensor"
    /\ ret.value.countries_affected >= 1
    /\ feed = <<>>
    /\ cached_data = <<>>
    /\ last_update = ClockOfFetch(2)

---------------------------------------------------------------------------
(* C20 *)

\* fetch_alerts returns through an except clause.
FailedReturn == pc # "returned" /\ pc' = "returned" /\ ErrorInLog'

\* C20: a fetch_alerts call that returns through an error path leaves
\* cached_data and last_update as they were; the two change only when a
\* fetch returns its mapping, and then to that mapping and to the time of
\* that call; cached_data is None exactly when last_update is None.
C20_FailureKeepsCache ==
    /\ [](cached_data = NoneDict <=> last_update = NoneValue)
    /\ [][FailedReturn => UNCHANGED <<cached_data, last_update>>]_vars
    /\ [][<<cached_data, last_update>>' # <<cached_data, last_update>>
             => /\ pc' = "returned"
                /\ ~ErrorInLog'
                /\ last_update' = now'
                /\ cached_data' = result']_vars

\* The first call cached a country; the second failed: the cache and the
\* time of the first call are still there.
C20_Witness ==
    /\ pc = "returned"
    /\ ErrorInLog
    /\ result = <<>>
    /\ FetchNumber = 2
    /\ cached_data # NoneDict
    /\ Len(cached_data) >= 1
    /\ last_update = ClockOfFetch(1)

---------------------------------------------------------------------------
(* fetch_alerts called twice on the same feed with the same arguments *)

\* An item of Italy whose pubDate does not parse.
UndatedItem ==
    [title |-> <<"I", "t", "a", "l", "y">>,
     description |-> << [k |-> "level", d |-> <<"3">>], [k |-> "type", d |-> <<"9">>] >>,
     pub_date |-> [fmt |-> "garbage"],
     link |-> FeedLink, guid |-> FeedGuid]

RepeatFeeds == SeqsUpTo({ItalyItem, UKItem, UndatedItem}, MaxItems)

\* Date ranges that end after both calls and between them.
RepeatRanges ==
    { [start |-> [date |-> <<2025, 7, 1>>, tz |-> "naive"],
       end |-> [date |-> <<2025, 7, 31>>, tz |-> "naive"]],
      [start |-> [date |-> <<2025, 7, 1>>, tz |-> "naive"],
       end |-> [date |-> <<2025, 7, 11>>, tz |-> "naive"]] }

\* The first call.
CallFetchAlertsFirst ==
    /\ pc = "idle"
    /\ monitored_countries' = AggregationMonitored
    /\ \E range \in RepeatRanges :
          /\ start_date' = range.start
          /\ end_date' = range.end
    /\ now' = ClockOfFetch(1)
    /\ pc' = "request"
    /\ UNCHANGED <<call, ret, feed, idx, alerts_by_country, result,
                   cached_data, last_update, log, entityVars>>

\* The response of the first call is parsed.
FirstResponseParsed ==
    /\ pc = "request"
    /\ FetchNumber = 1
    /\ feed' \in RepeatFeeds
    /\ alerts_by_country' = <<>>
    /\ idx' = 0
    /\ pc' = "items"
    /\ UNCHANGED <<call, ret, monitored_countries, start_date, end_date, now,
                   result, cached_data, last_update, log, entityVars>>

\* The caller keeps the mapping of the first call and calls again with the
\* same arguments, a day later.
CallFetchAlertsAgain ==
    /\ pc = "returned"
    /\ FetchNumber = 1
    /\ ret' = ReturnedFrom("fetch_alerts", result)
    /\ now' = ClockOfFetch(2)
    /\ pc' = "request"
    /\ idx' = 0
    /\ alerts_by_country' = <<>>
    /\ result' = NoneDict
    /\ UNCHANGED <<call, monitored_countries, start_date, end_date, feed,
                   cached_data, last_update, log, entityVars>>

\* A second call whose loop starts from the cached mapping.
SameResponseParsedOntoCache ==
    /\ pc = "request"
    /\ FetchNumber = 2
    /\ feed' = feed
    /\ alerts_by_country' = cached_data
    /\ idx' = 0
    /\ pc' = "items"
    /\ UNCHANGED <<call, ret, monitored_countries, start_date, end_date, now,
                   result, cached_data, last_update, log, entityVars>>

\* The response of the second call, with the items of the first, is parsed.
SameResponseParsed ==
    /\ pc = "request"
    /\ FetchNumber = 2
    /\ feed' = feed
    /\ alerts_by_country' = <<>>
    /\ idx' = 0
    /\ pc' = "items"
    /\ UNCHANGED <<call, ret, monitored_countries, start_date, end_date, now,
                   result, cached_data, last_update, log, entityVars>>

NextRepeat ==
    \/ CallFetchAlertsFirst
    \/ FirstResponseParsed
    \/ ProcessItem
    \/ CacheAndReturn
    \/ CallFetchAlertsAgain
    \/ SameResponseParsed

SpecRepeat == Init /\ [][NextRepeat]_vars

---------------------------------------------------------------------------
(* C21 *)

Keys(mapping) == { mapping[k].country : k \in DOMAIN mapping }

EntryOf(mapping, country) ==
    mapping[CHOOSE k \in DOMAIN mapping : mapping[k].country = country]

\* The same country keys and, per country, the same count, severity and
\* set of hazard types.
SameAggregates(first, second) ==
    /\ Keys(first) = Keys(second)
    /\ \A country \in Keys(first) :
          /\ EntryOf(first, country).count = EntryOf(second, country).count
          /\ EntryOf(first, country).level = EntryOf(second, country).level
          /\ Elements(EntryOf(first, country).types)
                = Elements(EntryOf(second, country).types)

\* The second call has returned.
SecondFetchReturned == pc = "returned" /\ FetchNumber = 2 /\ ret.returned

\* The publish date of every item of the feed parses.
EveryPubDateParses ==
    \A i \in DOMAIN feed :
        ParsePubDate(feed[i].pub_date, ClockOfFetch(1))
            = ParsePubDate(feed[i].pub_date, ClockOfFetch(2))

---------------------------------------------------------------------------
(* get_alerts_for_sensor and get_alerts_for_camera on feeds with several   *)
(* alerts of one country                                                   *)

\* An item of Italy with two severity markers and a validity period.
ItalyPeriodItem ==
    [title |-> <<"I", "t", "a", "l", "y">>,
     description |-> << [k |-> "level", d |-> <<"3">>], [k |-> "type", d |-> <<"9">>],
                        [k |-> "level", d |-> <<"1">>],
                        [k |-> "period", from |-> IsoDay(<<2025, 7, 12>>, "Z"),
                                         until |-> IsoDay(<<2025, 7, 13>>, "Z")] >>,
     pub_date |-> [fmt |-> "rfc822", wd |-> "Thu", day |-> 10, mon |-> "Jul",
                   year |-> <<"2", "5">>, tz |-> "+0000"],
     link |-> FeedLink, guid |-> FeedGuid]

ShapeFeeds == SeqsUpTo({ItalyItem, ItalyPeriodItem, UKItem}, MaxItems)

\* get_alerts_for_sensor or get_alerts_for_camera is called.
CallShapeMethod ==
    /\ pc = "idle"
    /\ call' \in { [fn |-> "get_alerts_for_sensor"], [fn |-> "get_alerts_for_camera"] }
    /\ monitored_countries' = AggregationMonitored
    /\ start_date' = [date |-> <<2025, 7, 1>>, tz |-> "naive"]
    /\ end_date' = [date |-> <<2025, 7, 31>>, tz |-> "naive"]
    /\ now' \in FetchClocks
    /\ pc' = "request"
    /\ UNCHANGED <<ret, feed, idx, alerts_by_country, result,
                   cached_data, last_update, log, entityVars>>

\* The response is parsed; the loop over its items starts.
ShapeResponseParsed ==
    /\ pc = "request"
    /\ feed' \in ShapeFeeds
    /\ alerts_by_country' = <<>>
    /\ idx' = 0
    /\ pc' = "items"
    /\ UNCHANGED <<call, ret, monitored_countries, start_date, end_date, now,
                   result, cached_data, last_update, log, entityVars>>

NextShapes ==
    \/ CallShapeMethod
    \/ RequestFails
    \/ ShapeResponseParsed
    \/ ProcessItem
    \/ CacheAndReturn
    \/ ReturnSensorShape
    \/ ReturnCameraShape

SpecShapes == Init /\ [][NextShapes]_vars

---------------------------------------------------------------------------
(* C22 *)

\* The method called has returned its shape.
ShapeReturned(method) == pc = "done" /\ ret.returned /\ ret.method = method

\* The positions, in feed order, of the items that contribute an alert to
\* the country, among the first n items.
RECURSIVE ContributingTo(_, _)
ContributingTo(country, n) ==
    IF n = 0 THEN <<>>
    ELSE IF n \in Contributing /\ ResolutionOf(feed[n].title) = country
         THEN Append(ContributingTo(country, n - 1), n)
         ELSE ContributingTo(country, n - 1)

\* The camera summary of a country is that of the aggregate.
SummaryOfAggregate(summary, entry) ==
    LET from == ContributingTo(entry.country, Len(feed))
    IN  /\ summary.country = entry.country
        /\ summary.level = entry.level
        /\ summary.count = entry.count
        /\ summary.types = entry.types
        /\ summary.latest_date = entry.latest_date
        /\ summary.titles = [j \in DOMAIN from |-> feed[from[j]].title]
        /\ from # <<>>
        /\ summary.periods = ParseTimePeriods(DescriptionText(feed[from[1]]))

\* C22: the camera shape has the countries of the fetch_alerts aggregate,
\* which are the countries of the sensor shape of the same aggregate; the
\* summary of each country has the level, count, types and latest_date of
\* the aggregate, the titles of the contributing alerts in feed order and
\* the validity periods of the first contributing alert.
C22_ShapesAgree ==
    /\ ShapeReturned("get_alerts_for_camera") =>
          /\ Len(ret.value) = Len(result)
          /\ { ret.value[k].country : k \in DOMAIN ret.value }
                = Keys(SensorShape(result).alerts_by_country)
          /\ { ret.value[k].country : k \in DOMAIN ret.value }
                = { SensorShape(result).alerts[n].country :
                       n \in DOMAIN SensorShape(result).alerts }
          /\ \A k \in DOMAIN ret.value : SummaryOfAggregate(ret.value[k], result[k])
    /\ ShapeReturned("get_alerts_for_sensor") =>
          /\ ret.value.alerts_by_country = result
          /\ Keys(ret.value.alerts_by_country)
                = { CameraShape(result)[k].country : k \in DOMAIN result }

\* The camera shape of a country with two alerts: two titles in feed
\* order, and the periods of the first alert, which the second has not.
C22_Witness ==
    /\ ShapeReturned("get_alerts_for_camera")
    /\ Len(feed) = 2
    /\ \E k \in DOMAIN ret.value :
          /\ ret.value[k].titles = << feed[1].title, feed[2].title >>
          /\ feed[1].title # feed[2].title
          /\ ret.value[k].periods # <<>>
          /\ result[k].alerts[2].periods = <<>>

---------------------------------------------------------------------------
(* C24 *)

RECURSIVE SumOfCounts(_)
SumOfCounts(mapping) ==
    IF mapping = <<>> THEN 0 ELSE Head(mapping).count + SumOfCounts(Tail(mapping))

\* The sensor alert is a copy of the alert.
CopyOf(sensor_alert, alert) ==
    /\ sensor_alert.country = alert.country
    /\ sensor_alert.event = alert.title
    /\ sensor_alert.level = alert.level
    /\ sensor_alert.pub_date = alert.pub_date
    /\ sensor_alert.description = alert.raw_description

\* The alerts of the mapping of which the sensor alert is a copy.
RECURSIVE MultiplicityOfCopies(_, _)
MultiplicityOfCopies(sensor_alert, alerts) ==
    IF alerts = <<>> THEN 0
    ELSE (IF CopyOf(sensor_alert, Head(alerts)) THEN Multiplicity(Head(alerts)) ELSE 0)
            + MultiplicityOfCopies(sensor_alert, Tail(alerts))

RECURSIVE AllAlerts(_)
AllAlerts(mapping) ==
    IF mapping = <<>> THEN <<>> ELSE Head(mapping).alerts \o AllAlerts(Tail(mapping))

\* C24: in every result of get_alerts_for_sensor, total_count is the length
\* of the list 'alerts' and the sum of the counts of alerts_by_country,
\* countries_affected is the number of its keys, every alert of a country
\* has a copy in the list, and the copies of an alert are as many as its
\* multiplicity, each with the level of the alert.
C24_SensorShapeTotals ==
    ShapeReturned("get_alerts_for_sensor") =>
        LET shape == ret.value
        IN  /\ shape.total_count = Len(shape.alerts)
            /\ shape.total_count = SumOfCounts(shape.alerts_by_country)
            /\ shape.countries_affected = Cardinality(Keys(shape.alerts_by_country))
            /\ \A alert \in AlertsOf(shape.alerts_by_country) :
                  \E n \in DOMAIN shape.alerts : CopyOf(shape.alerts[n], alert)
            /\ \A n \in DOMAIN shape.alerts :
                  Cardinality({ m \in DOMAIN shape.alerts : shape.alerts[m] = shape.alerts[n] })
                     = MultiplicityOfCopies(shape.alerts[n],
                                            AllAlerts(shape.alerts_by_country))

\* An alert with two severity markers and an alert with one: three sensor
\* alerts, two of them copies of the first.
C24_Witness ==
    /\ ShapeReturned("get_alerts_for_sensor")
    /\ Len(result) = 1
    /\ Len(result[1].alerts) = 2
    /\ Multiplicity(result[1].alerts[1]) = 2
    /\ ret.value.total_count = 3
    /\ ret.value.alerts[1] = ret.value.alerts[2]
    /\ ret.value.alerts[1].level = "orange"

---------------------------------------------------------------------------
(* fetch_alerts as a function of the response and its arguments            *)

\* The mappings one iteration of the loop over the items can leave, one
\* for each order in which the hazard types can be listed.
MappingsAfterItem(mapping, item, monitored, range_start, range_end, clock) ==
    IF item.title = NoElement \/ item.description = NoElementDescription
    THEN { mapping }
    ELSE LET title == IF item.title = None THEN <<>> ELSE item.title
             description == IF item.description = NoneDescription
                            THEN <<>> ELSE item.description
             country == ExtractCountryFromTitle(title)
         IN  IF IsMonitoredCountry(country, NormalizedCountries(monitored))
             THEN { LET alert == AlertOf(item, title, description, country, types, clock)
                    IN  IF IsAlertRelevant(alert.event_time, alert.periods,
                                           range_start, range_end)
                        THEN GroupByCountry(mapping, alert)
                        ELSE mapping :
                    types \in ParseAwarenessTypeFromDescription(description) }
             ELSE { mapping }

\* The mappings the loop can leave after the items of a response.
RECURSIVE MappingsOfFetch(_, _, _, _, _)
MappingsOfFetch(items, monitored, range_start, range_end, clock) ==
    IF items = <<>>
    THEN { <<>> }
    ELSE UNION { MappingsAfterItem(mapping, items[Len(items)], monitored,
                                   range_start, range_end, clock) :
                 mapping \in MappingsOfFetch(SubSeq(items, 1, Len(items) - 1),
                                             monitored, range_start, range_end, clock) }

---------------------------------------------------------------------------
(* The config entry and the entities of the sensor platform                *)

(* A dict with text keys is a function on its keys; the value of each key  *)
(* of hass.data[DOMAIN] is a record.                                       *)

\* The key of the integration in hass.data.
DomainKey == "DOMAIN"

\* d[key] = value
Put(d, key, value) ==
    [k \in DOMAIN d \cup {key} |-> IF k = key THEN value ELSE d[k]]

\* d.pop(key, None)
Pop(d, key) == [k \in DOMAIN d \ {key} |-> d[k]]

\* The text of a date field of the config entry: "YYYY-MM-DD" or a text
\* that is no date.
DateText(d) == [fmt |-> "ymd", date |-> d]

\* datetime.strptime(text, "%Y-%m-%d")
StrptimeYmd(text) ==
    IF /\ text.fmt = "ymd"
       /\ text.date[2] \in 1..12
       /\ text.date[3] \in 1..DaysInMonth(text.date[1], text.date[2])
    THEN [date |-> text.date, tz |-> "naive"]
    ELSE ValueError

\* d + timedelta(days=1)
NextDay(d) ==
    IF d[3] < DaysInMonth(d[1], d[2]) THEN <<d[1], d[2], d[3] + 1>>
    ELSE IF d[2] < 12 THEN <<d[1], d[2] + 1, 1>>
    ELSE <<d[1] + 1, 1, 1>>

\* min and max of two calendar dates
MinDate(d1, d2) == IF DateLess(d2, d1) THEN d2 ELSE d1

MaxDate(d1, d2) == IF DateLess(d1, d2) THEN d2 ELSE d1

\* extended_start_dt and extended_end_dt of the entities
ExtendedStart(start, clock) ==
    [date |-> MinDate(DateOf(start), DateOf(clock)), tz |-> "naive"]

ExtendedEnd(end, clock) ==
    [date |-> MaxDate(DateOf(end), NextDay(DateOf(clock))), tz |-> "naive"]

\* entry.data: the countries the config flow stored and the two dates.
EntryConfigs ==
    [countries : { ConfigFlowCountries(<<"I", "t", "a", "l", "y", ",", "u", "k">>) },
     vacation_start : { DateText(<<2025, 7, 1>>), DateText(<<2025, 7, 10>>),
                        DateText(<<2025, 2, 30>>) },
     vacation_end : { DateText(<<2025, 7, 5>>), DateText(<<2025, 7, 31>>) }]

\* The config the entities read.
EntryConfig == hass_data[DomainKey]["config"]

\* The dates of the config are dates.
ConfigParses(config) ==
    /\ StrptimeYmd(config.vacation_start) # ValueError
    /\ StrptimeYmd(config.vacation_end) # ValueError

\* The mappings fetch_alerts can build for an entity from a response.
MappingsForEntity(items, config, clock) ==
    MappingsOfFetch(items, SensorCountries(config.countries),
                    ExtendedStart(StrptimeYmd(config.vacation_start), clock),
                    ExtendedEnd(StrptimeYmd(config.vacation_end), clock), clock)

\* level_summary of MeteoalarmSensor.update
LevelSummary(alerts) ==
    [level \in {"red", "orange", "yellow", "green", "unknown"}
               \cup { alerts[n].level : n \in DOMAIN alerts } |->
        Cardinality({ n \in DOMAIN alerts : alerts[n].level = level })]

\* _attributes after an update that got sensor_data.
SensorAttributes(sensor_data, config, clock, fetched) ==
    [kind |-> "ok",
     alerts |-> sensor_data.alerts,
     countries_monitored |-> SensorCountries(config.countries),
     countries_with_alerts |-> sensor_data.countries_affected,
     vacation_period |-> << StrptimeYmd(config.vacation_start).date,
                            StrptimeYmd(config.vacation_end).date >>,
     extended_period |-> << ExtendedStart(StrptimeYmd(config.vacation_start), clock).date,
                            ExtendedEnd(StrptimeYmd(config.vacation_end), clock).date >>,
     last_update |-> clock,
     feed_source |-> "RSS",
     rss_last_fetch |-> fetched,
     alerts_by_level |-> LevelSummary(sensor_data.alerts)]

\* _attributes after an update that raised.
ErrorAttributes(clock) ==
    [kind |-> "error", error |-> "ValueError", last_error_time |-> clock]

\* The position of an entity in the loop of its async_added_to_hass.
LoopAt(entity) == threads[entity].pc

LoopMoves(entity, position) ==
    threads' = [threads EXCEPT ![entity].pc = position]

\* The config entry is set up: hass.data[DOMAIN] holds its config.
EntryLoaded ==
    /\ DomainKey \in DOMAIN hass_data
    /\ "config" \in DOMAIN hass_data[DomainKey]

\* hass.data[DOMAIN] after async_setup_entry of the sensor platform: the
\* reader is created if there is none, and the trigger sensor is stored.
SensorPlatformData(data) ==
    Put(IF "rss_reader" \notin DOMAIN data
        THEN Put(data, "rss_reader", [obj |-> "MeteoalarmRSSReader"])
        ELSE data,
        "alert_trigger_sensor", [obj |-> "MeteoalarmAlertTriggerSensor"])

\* hass.data[DOMAIN] after the lines of __init__.async_setup_entry that
\* store the config and the reader.
EntryData(data, config) ==
    Put(Put(data, "config", config), "rss_reader", [obj |-> "MeteoalarmRSSReader"])

\* __init__.async_setup_entry: the config and the reader are stored and
\* the setup is forwarded to the platforms, of which the sensor platform
\* stores the trigger sensor.
SetupEntry ==
    /\ ~EntryLoaded
    /\ \E config \in EntryConfigs :
          hass_data' =
             Put(hass_data, DomainKey,
                 SensorPlatformData(
                    EntryData(IF DomainKey \in DOMAIN hass_data
                              THEN hass_data[DomainKey] ELSE <<>>, config)))
    /\ ret' = ReturnedFrom("async_setup_entry", TRUE)
    /\ UNCHANGED <<call, readerVars, threads, sensor_state,
                   sensor_attributes, trigger_state, previous_total, previous_alerts,
                   reset_task, timers, trigger_pc, trigger_locals, callback_pc>>

\* The main sensor is added to hass: its loop starts.
SensorAdded ==
    /\ DomainKey \in DOMAIN hass_data
    /\ LoopAt("main_sensor") = "idle"
    /\ LoopMoves("main_sensor", "update")
    /\ UNCHANGED <<call, ret, readerVars, sensor_state,
                   sensor_attributes, trigger_state, previous_total, previous_alerts,
                   reset_task, timers, trigger_pc, trigger_locals, callback_pc,
                   hass_data>>

\* What every update of the main sensor leaves alone.
SensorUpdateFrame ==
    UNCHANGED <<call, ret, idx, pc, result, trigger_state, previous_total,
                previous_alerts, reset_task, timers, trigger_pc, trigger_locals,
                callback_pc, hass_data>>

\* MeteoalarmSensor.update when the reader fetches the feed.
SensorUpdate ==
    /\ LoopAt("main_sensor") = "update"
    /\ FetchNumber < MaxFetches
    /\ ConfigParses(EntryConfig)
    /\ now' = ClockOfFetch(FetchNumber + 1)
    /\ monitored_countries' = SensorCountries(EntryConfig.countries)
    /\ start_date' = ExtendedStart(StrptimeYmd(EntryConfig.vacation_start), now')
    /\ end_date' = ExtendedEnd(StrptimeYmd(EntryConfig.vacation_end), now')
    /\ feed' \in ShapeFeeds
    /\ alerts_by_country' \in MappingsForEntity(feed', EntryConfig, now')
    /\ cached_data' = alerts_by_country'
    /\ last_update' = now'
    /\ log' = <<>>
    /\ sensor_state' = SensorShape(alerts_by_country').total_count
    /\ sensor_attributes' =
          SensorAttributes(SensorShape(alerts_by_country'), EntryConfig, now', now')
    /\ LoopMoves("main_sensor", "sleep")
    /\ SensorUpdateFrame

\* MeteoalarmSensor.update when the fetch fails: the reader logs the error
\* and returns its empty shape.
SensorUpdateFetchFails ==
    /\ LoopAt("main_sensor") = "update"
    /\ FetchNumber < MaxFetches
    /\ ConfigParses(EntryConfig)
    /\ now' = ClockOfFetch(FetchNumber + 1)
    /\ monitored_countries' = SensorCountries(EntryConfig.countries)
    /\ start_date' = ExtendedStart(StrptimeYmd(EntryConfig.vacation_start), now')
    /\ end_date' = ExtendedEnd(StrptimeYmd(EntryConfig.vacation_end), now')
    /\ log' \in { << ErrorLogged("network") >>, << ErrorLogged("xml") >> }
    /\ sensor_state' = EmptySensorShape.total_count
    /\ sensor_attributes' =
          SensorAttributes(EmptySensorShape, EntryConfig, now', last_update)
    /\ LoopMoves("main_sensor", "sleep")
    /\ UNCHANGED <<feed, alerts_by_country, cached_data, last_update>>
    /\ SensorUpdateFrame

\* An update without the except clause: the exception leaves the loop.
SensorUpdateRaises ==
    /\ LoopAt("main_sensor") = "update"
    /\ FetchNumber < MaxFetches
    /\ ~ConfigParses(EntryConfig)
    /\ now' = ClockOfFetch(FetchNumber + 1)
    /\ log' = <<>>
    /\ LoopMoves("main_sensor", "stopped")
    /\ UNCHANGED <<monitored_countries, start_date, end_date, feed,
                   alerts_by_country, cached_data, last_update,
                   sensor_state, sensor_attributes>>
    /\ SensorUpdateFrame

\* MeteoalarmSensor.update when strptime raises: the except clause.
SensorUpdateFails ==
    /\ LoopAt("main_sensor") = "update"
    /\ FetchNumber < MaxFetches
    /\ ~ConfigParses(EntryConfig)
    /\ now' = ClockOfFetch(FetchNumber + 1)
    /\ log' = << ErrorLogged("sensor") >>
    /\ sensor_state' = 0
    /\ sensor_attributes' = ErrorAttributes(now')
    /\ LoopMoves("main_sensor", "sleep")
    /\ UNCHANGED <<monitored_countries, start_date, end_date, feed,
                   alerts_by_country, cached_data, last_update>>
    /\ SensorUpdateFrame

\* asyncio.sleep(300) of the loop of the main sensor is over.
SensorSleepOver ==
    /\ LoopAt("main_sensor") = "sleep"
    /\ LoopMoves("main_sensor", "update")
    /\ UNCHANGED <<call, ret, readerVars, sensor_state,
                   sensor_attributes, trigger_state, previous_total, previous_alerts,
                   reset_task, timers, trigger_pc, trigger_locals, callback_pc,
                   hass_data>>

NextSensor ==
    \/ SetupEntry
    \/ SensorAdded
    \/ SensorUpdate
    \/ SensorUpdateFetchFails
    \/ SensorUpdateFails
    \/ SensorSleepOver

SpecSensor == Init /\ [][NextSensor]_vars

---------------------------------------------------------------------------
(* C23 *)

\* An update of the main sensor has just ended.
SensorUpdated == LoopAt("main_sensor") = "sleep"

\* C23: no update of the main sensor ends the loop of the sensor, and after
\* an update in which the fetch failed or an error occurred the state is 0,
\* whatever the state and the cache before; the loop then goes on to the
\* next update.
C23_FailedUpdateIsZeroState ==
    /\ [](LoopAt("main_sensor") \in {"idle", "update", "sleep"})
    /\ [](SensorUpdated /\ ErrorInLog => sensor_state = 0)
    /\ [][LoopAt("main_sensor") = "update" /\ ErrorInLog'
             => /\ sensor_state' = 0
                /\ SensorUpdated'
                /\ cached_data' = cached_data]_vars

\* An update fails after an update that counted alerts: the cache still
\* holds the alerts of the earlier update and the state is 0.
C23_Witness ==
    /\ SensorUpdated
    /\ ErrorInLog
    /\ sensor_state = 0
    /\ cached_data # NoneDict
    /\ cached_data # <<>>
    /\ FetchNumber = 2

---------------------------------------------------------------------------
(* fetch_alerts of the shared reader in the executor threads of the two    *)
(* entities                                                                *)

(* threads[t] holds the locals of fetch_alerts in the thread of entity t;  *)
(* cached_data and last_update are the fields of the one reader.           *)

ConcurrentFeeds == SeqsUpTo({ItalyItem, UKItem}, MaxItems)

ConcurrentStart == [date |-> <<2025, 7, 1>>, tz |-> "naive"]

ConcurrentEnd == [date |-> <<2025, 7, 31>>, tz |-> "naive"]

\* The entity's thread enters fetch_alerts.
ThreadCalls(t) ==
    /\ threads[t].pc = "idle"
    /\ \E clock \in FetchClocks :
          threads' = [threads EXCEPT ![t].pc = "request", ![t].now = clock]
    /\ UNCHANGED <<call, ret, readerVars, sensor_state, sensor_attributes,
                   trigger_state, previous_total, previous_alerts, reset_task,
                   timers, trigger_pc, trigger_locals, callback_pc, hass_data>>

\* The request of the thread fails: it returns {}.
ThreadRequestFails(t) ==
    /\ threads[t].pc = "request"
    /\ threads' = [threads EXCEPT ![t].pc = "returned", ![t].result = <<>>]
    /\ UNCHANGED <<call, ret, readerVars, sensor_state, sensor_attributes,
                   trigger_state, previous_total, previous_alerts, reset_task,
                   timers, trigger_pc, trigger_locals, callback_pc, hass_data>>

\* A thread that goes on building the mapping the reader holds.
ThreadResponseParsedOntoCache(t) ==
    /\ threads[t].pc = "request"
    /\ \E items \in ConcurrentFeeds :
          threads' = [threads EXCEPT ![t].pc = "items", ![t].feed = items,
                                     ![t].idx = 0,
                                     ![t].alerts_by_country =
                                         IF cached_data = NoneDict THEN <<>>
                                         ELSE cached_data]
    /\ UNCHANGED <<call, ret, readerVars, sensor_state, sensor_attributes,
                   trigger_state, previous_total, previous_alerts, reset_task,
                   timers, trigger_pc, trigger_locals, callback_pc, hass_data>>

\* The response of the thread is parsed: 'alerts_by_country = {}'.
ThreadResponseParsed(t) ==
    /\ threads[t].pc = "request"
    /\ \E items \in ConcurrentFeeds :
          threads' = [threads EXCEPT ![t].pc = "items", ![t].feed = items,
                                     ![t].idx = 0, ![t].alerts_by_country = <<>>]
    /\ UNCHANGED <<call, ret, readerVars, sensor_state, sensor_attributes,
                   trigger_state, previous_total, previous_alerts, reset_task,
                   timers, trigger_pc, trigger_locals, callback_pc, hass_data>>

\* One iteration of the loop over the items in the thread.
ThreadProcessItem(t) ==
    /\ threads[t].pc = "items"
    /\ threads[t].idx < Len(threads[t].feed)
    /\ \E mapping \in MappingsAfterItem(threads[t].alerts_by_country,
                                        threads[t].feed[threads[t].idx + 1],
                                        AggregationMonitored, ConcurrentStart,
                                        ConcurrentEnd, threads[t].now) :
          threads' = [threads EXCEPT ![t].idx = @ + 1,
                                     ![t].alerts_by_country = mapping]
    /\ UNCHANGED <<call, ret, readerVars, sensor_state, sensor_attributes,
                   trigger_state, previous_total, previous_alerts, reset_task,
                   timers, trigger_pc, trigger_locals, callback_pc, hass_data>>

\* 'self._cached_data = alerts_by_country' in the thread.
ThreadCaches(t) ==
    /\ threads[t].pc = "items"
    /\ threads[t].idx = Len(threads[t].feed)
    /\ cached_data' = threads[t].alerts_by_country
    /\ threads' = [threads EXCEPT ![t].pc = "cached"]
    /\ UNCHANGED <<call, ret, monitored_countries, start_date, end_date, now, pc,
                   feed, idx, alerts_by_country, result, last_update, log,
                   sensor_state, sensor_attributes,
                   trigger_state, previous_total, previous_alerts, reset_task,
                   timers, trigger_pc, trigger_locals, callback_pc, hass_data>>

\* 'self._last_update = datetime.now()' in the thread.
ThreadStamps(t) ==
    /\ threads[t].pc = "cached"
    /\ last_update' = threads[t].now
    /\ threads' = [threads EXCEPT ![t].pc = "stamped"]
    /\ UNCHANGED <<call, ret, monitored_countries, start_date, end_date, now, pc,
                   feed, idx, alerts_by_country, result, cached_data, log,
                   sensor_state, sensor_attributes,
                   trigger_state, previous_total, previous_alerts, reset_task,
                   timers, trigger_pc, trigger_locals, callback_pc, hass_data>>

\* 'return alerts_by_country' in the thread.
ThreadReturns(t) ==
    /\ threads[t].pc = "stamped"
    /\ threads' = [threads EXCEPT ![t].pc = "returned",
                                  ![t].result = threads[t].alerts_by_country]
    /\ UNCHANGED <<call, ret, readerVars, sensor_state, sensor_attributes,
                   trigger_state, previous_total, previous_alerts, reset_task,
                   timers, trigger_pc, trigger_locals, callback_pc, hass_data>>

NextConcurrent ==
    \/ \E t \in ThreadNames : ThreadCalls(t)
    \/ \E t \in ThreadNames : ThreadRequestFails(t)
    \/ \E t \in ThreadNames : ThreadResponseParsed(t)
    \/ \E t \in ThreadNames : ThreadProcessItem(t)
    \/ \E t \in ThreadNames : ThreadCaches(t)
    \/ \E t \in ThreadNames : ThreadStamps(t)
    \/ \E t \in ThreadNames : ThreadReturns(t)

SpecConcurrent == Init /\ [][NextConcurrent]_vars

---------------------------------------------------------------------------
(* C25 *)

\* The items of a country, in the order of the response.
RECURSIVE ItemsOfCountry(_, _)
ItemsOfCountry(items, country) ==
    IF items = <<>> THEN <<>>
    ELSE IF ResolutionOf(Head(items).title) = country
         THEN << Head(items) >> \o ItemsOfCountry(Tail(items), country)
         ELSE ItemsOfCountry(Tail(items), country)

\* The mapping is the whole of what one fetch makes of the response: the
\* countries of its items, and for each country one alert for each of its
\* items, in their order.
WholeMappingOf(mapping, items) ==
    /\ Keys(mapping) = { ResolutionOf(items[i].title) : i \in DOMAIN items }
    /\ Len(mapping) = Cardinality(Keys(mapping))
    /\ \A k \in DOMAIN mapping :
          LET from == ItemsOfCountry(items, mapping[k].country)
          IN  /\ Len(mapping[k].alerts) = Len(from)
              /\ \A j \in DOMAIN from : MadeOf(mapping[k].alerts[j], from[j])

\* The fetch of the thread has finished its loop and stored its mapping.
HasCached(t) == threads[t].pc \in {"cached", "stamped", "returned"}

\* C25: with the two entities fetching through the one reader in their
\* threads, cached_data is None or the whole final mapping of the response
\* of one thread that has finished its loop; the mapping a thread returns
\* is the whole mapping of its own response.
C25_CacheIsOneWholeFetch ==
    /\ \/ cached_data = NoneDict
       \/ \E t \in ThreadNames :
             /\ HasCached(t)
             /\ threads[t].idx = Len(threads[t].feed)
             /\ cached_data = threads[t].alerts_by_country
             /\ WholeMappingOf(cached_data, threads[t].feed)
    /\ \A t \in ThreadNames :
          threads[t].pc = "returned" /\ threads[t].result # NoneDict
             /\ threads[t].idx = Len(threads[t].feed) /\ threads[t].feed # <<>>
          => WholeMappingOf(threads[t].result, threads[t].feed)

\* One thread has stored its mapping while the other is in the middle of
\* its loop over a different response, with a mapping of its own.
C25_Witness ==
    \E t, u \in ThreadNames :
        /\ t # u
        /\ threads[t].pc = "cached"
        /\ cached_data = threads[t].alerts_by_country
        /\ cached_data # <<>>
        /\ threads[u].pc = "items"
        /\ threads[u].idx = 1
        /\ Len(threads[u].feed) = 2
        /\ threads[u].feed # threads[t].feed
        /\ threads[u].alerts_by_country # <<>>
        /\ threads[u].alerts_by_country # cached_data

---------------------------------------------------------------------------
(* MeteoalarmAlertTriggerSensor                                            *)

(* _initialize_baseline and update run in an executor thread               *)
(* (async_add_executor_job); _reset_callback runs in the event loop, where *)
(* call_later put it.  No lock orders the two, so the statements of update *)
(* that read or write _state and _reset_task are steps of their own, and   *)
(* so are the two assignments of _reset_callback.  A timer handle is the   *)
(* number of the fetch of the update that scheduled it; timers holds the   *)
(* handles that are scheduled, not cancelled and not yet run.              *)

\* Updates of the trigger sensor after the baseline.
MaxUpdates == 4

TriggerFeeds == { <<>>, <<ItalyItem>>, <<UKItem>>, <<ItalyItem, UKItem>> }

\* alert_id of the trigger sensor: country, event, level and pub_date,
\* joined by '_'.
AlertId(sensor_alert) ==
    << sensor_alert.country, sensor_alert.event, sensor_alert.level,
       sensor_alert.pub_date >>

\* current_alerts
CurrentAlerts(data) == { AlertId(data.alerts[n]) : n \in DOMAIN data.alerts }

\* What the statements of the trigger sensor leave alone.
TriggerFrame ==
    UNCHANGED <<call, ret, idx, pc, result, threads, sensor_state,
                sensor_attributes, hass_data>>

TriggerStepFrame ==
    UNCHANGED <<call, ret, monitored_countries, start_date, end_date, now, pc,
                feed, idx, alerts_by_country, result, cached_data, last_update,
                threads, sensor_state, sensor_attributes, hass_data>>

\* get_alerts_for_sensor of the reader, called by the trigger sensor: the
\* fetch succeeds, or it fails, is logged and leaves the reader as it was.
TriggerFetch ==
    /\ FetchNumber < MaxUpdates + 1
    /\ now' = ClockOfFetch(FetchNumber + 1)
    /\ monitored_countries' = SensorCountries(EntryConfig.countries)
    /\ start_date' = ExtendedStart(StrptimeYmd(EntryConfig.vacation_start), now')
    /\ end_date' = ExtendedEnd(StrptimeYmd(EntryConfig.vacation_end), now')
    /\ \/ /\ feed' \in TriggerFeeds
          /\ alerts_by_country' \in MappingsForEntity(feed', EntryConfig, now')
          /\ cached_data' = alerts_by_country'
          /\ last_update' = now'
          /\ log' = <<>>
       \/ /\ log' \in { << ErrorLogged("network") >>, << ErrorLogged("xml") >> }
          /\ UNCHANGED <<feed, alerts_by_country, cached_data, last_update>>

\* data of _initialize_baseline and of update
TriggerData ==
    IF log' = <<>> THEN SensorShape(alerts_by_country') ELSE EmptySensorShape

\* The trigger sensor is added to hass: the baseline is next.
TriggerAdded ==
    /\ DomainKey \in DOMAIN hass_data
    /\ trigger_pc = "idle"
    /\ trigger_pc' = "baseline"
    /\ UNCHANGED <<call, ret, readerVars, threads, sensor_state, sensor_attributes,
                   trigger_state, previous_total, previous_alerts, reset_task,
                   timers, trigger_locals, callback_pc, hass_data>>

\* A baseline that records nothing.
TriggerBaselineRecordsNothing ==
    /\ trigger_pc = "baseline"
    /\ ConfigParses(EntryConfig)
    /\ TriggerFetch
    /\ trigger_pc' = "update"
    /\ UNCHANGED <<trigger_state, previous_total, previous_alerts, reset_task,
                   timers, trigger_locals, callback_pc>>
    /\ TriggerFrame

\* _initialize_baseline
TriggerBaseline ==
    /\ trigger_pc = "baseline"
    /\ ConfigParses(EntryConfig)
    /\ TriggerFetch
    /\ previous_total' = TriggerData.total_count
    /\ previous_alerts' = CurrentAlerts(TriggerData)
    /\ trigger_pc' = "update"
    /\ UNCHANGED <<trigger_state, reset_task, timers, trigger_locals, callback_pc>>
    /\ TriggerFrame

\* _initialize_baseline when strptime raises: the except clause logs.
TriggerBaselineRaises ==
    /\ trigger_pc = "baseline"
    /\ ~ConfigParses(EntryConfig)
    /\ log' = << ErrorLogged("trigger") >>
    /\ trigger_pc' = "update"
    /\ UNCHANGED <<call, ret, monitored_countries, start_date, end_date, now, pc,
                   feed, idx, alerts_by_country, result, cached_data, last_update,
                   threads, sensor_state, sensor_attributes, hass_data,
                   trigger_state, previous_total, previous_alerts, reset_task,
                   timers, trigger_locals, callback_pc>>

\* The locals of update after 'new_alerts = current_alerts - ...'.
UpdateLocals(data, known) ==
    [kind |-> "update",
     new_total |-> data.total_count,
     current_alerts |-> CurrentAlerts(data),
     new_alerts |-> CurrentAlerts(data) \ known]

\* update up to 'if new_alerts:', with new alerts.
TriggerUpdateDetects ==
    /\ trigger_pc = "update"
    /\ ConfigParses(EntryConfig)
    /\ TriggerFetch
    /\ trigger_locals' = UpdateLocals(TriggerData, previous_alerts)
    /\ trigger_locals'.new_alerts # {}
    /\ trigger_pc' = "detected"
    /\ UNCHANGED <<trigger_state, previous_total, previous_alerts, reset_task,
                   timers, callback_pc>>
    /\ TriggerFrame

\* update without new alerts: the tracking variables are updated.
TriggerUpdateNoNew ==
    /\ trigger_pc = "update"
    /\ ConfigParses(EntryConfig)
    /\ TriggerFetch
    /\ trigger_locals' = UpdateLocals(TriggerData, previous_alerts)
    /\ trigger_locals'.new_alerts = {}
    /\ previous_total' = trigger_locals'.new_total
    /\ previous_alerts' = trigger_locals'.current_alerts
    /\ trigger_pc' = "sleep"
    /\ UNCHANGED <<trigger_state, reset_task, timers, callback_pc>>
    /\ TriggerFrame

\* update when strptime raises: the except clause logs.
TriggerUpdateRaises ==
    /\ trigger_pc = "update"
    /\ ~ConfigParses(EntryConfig)
    /\ log' = << ErrorLogged("trigger") >>
    /\ trigger_locals' = [kind |-> "raised"]
    /\ trigger_pc' = "sleep"
    /\ UNCHANGED <<call, ret, monitored_countries, start_date, end_date, now, pc,
                   feed, idx, alerts_by_country, result, cached_data, last_update,
                   threads, sensor_state, sensor_attributes, hass_data,
                   trigger_state, previous_total, previous_alerts, reset_task,
                   timers, callback_pc>>

\* 'self._state = True' and async_schedule_update_ha_state()
TriggerSetsState ==
    /\ trigger_pc = "detected"
    /\ trigger_state' = TRUE
    /\ trigger_pc' = "check"
    /\ UNCHANGED <<log, previous_total, previous_alerts, reset_task, timers,
                   trigger_locals, callback_pc>>
    /\ TriggerStepFrame

\* 'if self._reset_task:'
TriggerChecksTask ==
    /\ trigger_pc = "check"
    /\ trigger_pc' = IF reset_task # NoTask THEN "cancel" ELSE "schedule"
    /\ UNCHANGED <<log, trigger_state, previous_total, previous_alerts, reset_task,
                   timers, trigger_locals, callback_pc>>
    /\ TriggerStepFrame

\* 'self._reset_task.cancel()'
TriggerCancels ==
    /\ trigger_pc = "cancel"
    /\ reset_task # NoTask
    /\ timers' = timers \ {reset_task}
    /\ trigger_pc' = "clear"
    /\ UNCHANGED <<log, trigger_state, previous_total, previous_alerts, reset_task,
                   trigger_locals, callback_pc>>
    /\ TriggerStepFrame

\* 'self._reset_task.cancel()' after the callback has set _reset_task to
\* None: AttributeError, and the except clause of update logs it.
TriggerCancelRaises ==
    /\ trigger_pc = "cancel"
    /\ reset_task = NoTask
    /\ log' = Append(log, ErrorLogged("trigger"))
    /\ trigger_pc' = "sleep"
    /\ UNCHANGED <<trigger_state, previous_total, previous_alerts, reset_task,
                   timers, trigger_locals, callback_pc>>
    /\ TriggerStepFrame

\* 'self._reset_task = None' of update
TriggerClears ==
    /\ trigger_pc = "clear"
    /\ reset_task' = NoTask
    /\ trigger_pc' = "schedule"
    /\ UNCHANGED <<log, trigger_state, previous_total, previous_alerts, timers,
                   trigger_locals, callback_pc>>
    /\ TriggerStepFrame

\* 'self._reset_task = self.hass.loop.call_later(300, self._reset_callback)'
TriggerSchedules ==
    /\ trigger_pc = "schedule"
    /\ timers' = timers \cup {FetchNumber}
    /\ reset_task' = FetchNumber
    /\ trigger_pc' = "record"
    /\ UNCHANGED <<log, trigger_state, previous_total, previous_alerts,
                   trigger_locals, callback_pc>>
    /\ TriggerStepFrame

\* 'Update tracking variables' after new alerts.
TriggerRecords ==
    /\ trigger_pc = "record"
    /\ previous_total' = trigger_locals.new_total
    /\ previous_alerts' = trigger_locals.current_alerts
    /\ trigger_pc' = "sleep"
    /\ UNCHANGED <<log, trigger_state, reset_task, timers, trigger_locals,
                   callback_pc>>
    /\ TriggerStepFrame

\* asyncio.sleep(300) of update_loop is over.
TriggerSleepOver ==
    /\ trigger_pc = "sleep"
    /\ trigger_pc' = "update"
    /\ UNCHANGED <<log, trigger_state, previous_total, previous_alerts, reset_task,
                   timers, trigger_locals, callback_pc>>
    /\ TriggerStepFrame

\* A timer runs out: _reset_callback starts with 'self._state = False'.
TimerFires ==
    /\ callback_pc = "idle"
    /\ \E handle \in timers : timers' = timers \ {handle}
    /\ trigger_state' = FALSE
    /\ callback_pc' = "clear"
    /\ UNCHANGED <<log, previous_total, previous_alerts, reset_task,
                   trigger_pc, trigger_locals>>
    /\ TriggerStepFrame

\* 'self._reset_task = None' of _reset_callback
CallbackClears ==
    /\ callback_pc = "clear"
    /\ reset_task' = NoTask
    /\ callback_pc' = "idle"
    /\ UNCHANGED <<log, trigger_state, previous_total, previous_alerts, timers,
                   trigger_pc, trigger_locals>>
    /\ TriggerStepFrame

NextTrigger ==
    \/ SetupEntry
    \/ TriggerAdded
    \/ TriggerBaseline
    \/ TriggerBaselineRaises
    \/ TriggerUpdateDetects
    \/ TriggerUpdateNoNew
    \/ TriggerUpdateRaises
    \/ TriggerSetsState
    \/ TriggerChecksTask
    \/ TriggerCancels
    \/ TriggerCancelRaises
    \/ TriggerClears
    \/ TriggerSchedules
    \/ TriggerRecords
    \/ TriggerSleepOver
    \/ TimerFires
    \/ CallbackClears

SpecTrigger == Init /\ [][NextTrigger]_vars

---------------------------------------------------------------------------
(* C26 *)

\* The baseline has run and no update has.
BaselineJustDone == trigger_pc = "update" /\ trigger_locals.kind = "none"

---------------------------------------------------------------------------
(* C27 *)

\* update has ended after it fetched.
UpdateEnded == trigger_pc = "sleep" /\ trigger_locals.kind = "update"

\* C27: update goes on to set the state only with an identifier that the
\* recorded set does not hold, and when it has ended the recorded set and
\* total are those of its fetch.
C27_UpdateReplacesRecord ==
    /\ trigger_pc \in {"detected", "check", "cancel", "clear", "schedule", "record"}
          => trigger_locals.new_alerts # {}
    /\ UpdateEnded
          => /\ previous_alerts = trigger_locals.current_alerts
             /\ previous_total = trigger_locals.new_total

---------------------------------------------------------------------------
(* C28 *)

\* Neither update nor _reset_callback is in the middle of its statements.
TriggerAtRest ==
    /\ trigger_pc \in {"idle", "baseline", "update", "sleep"}
    /\ callback_pc = "idle"

\* C28: between the runs of update and _reset_callback at most one timer
\* is pending, the state is True exactly while a timer is pending, and the
\* pending timer is the one whose handle the sensor holds.
C28_OneTimerWhileOn ==
    TriggerAtRest
       => /\ Cardinality(timers) <= 1
          /\ trigger_state = TRUE => timers # {}
          /\ timers # {} => trigger_state = TRUE /\ reset_task \in timers

---------------------------------------------------------------------------
(* The trigger sensor on a feed that does not change                       *)

\* The content the feed has from the baseline on.
SteadyFeedChosen ==
    /\ DomainKey \in DOMAIN hass_data
    /\ trigger_pc = "idle"
    /\ feed = <<>>
    /\ feed' \in TriggerFeeds \ { <<>> }
    /\ UNCHANGED <<call, ret, monitored_countries, start_date, end_date, now, pc,
                   idx, alerts_by_country, result, cached_data, last_update, log,
                   entityVars>>

\* The baseline fetches the feed.
SteadyBaseline == TriggerBaseline /\ log' = <<>> /\ feed' = feed

\* An update fetches the same feed, or its fetch fails.
SteadyUpdateDetects == TriggerUpdateDetects /\ feed' = feed

SteadyUpdateNoNew == TriggerUpdateNoNew /\ feed' = feed

NextSteady ==
    \/ SetupEntry
    \/ SteadyFeedChosen
    \/ TriggerAdded
    \/ SteadyBaseline
    \/ TriggerBaselineRaises
    \/ SteadyUpdateDetects
    \/ SteadyUpdateNoNew
    \/ TriggerUpdateRaises
    \/ TriggerSetsState
    \/ TriggerChecksTask
    \/ TriggerCancels
    \/ TriggerCancelRaises
    \/ TriggerClears
    \/ TriggerSchedules
    \/ TriggerRecords
    \/ TriggerSleepOver
    \/ TimerFires
    \/ CallbackClears

SpecSteady == Init /\ [][NextSteady]_vars

---------------------------------------------------------------------------
(* C29 *)

\* C29: with the feed and the configuration unchanged from the baseline on,
\* the trigger sensor is never on, whichever fetches succeed and fail.
C29_SteadyFeedNeverTriggers == trigger_state = FALSE

---------------------------------------------------------------------------
(* The config entry: set up and unloaded                                   *)

\* async_unload_entry when the platforms unload: the reader and the config
\* are popped, and the domain entry if nothing is left in it.
UnloadEntry ==
    /\ EntryLoaded
    /\ LET left == Pop(Pop(hass_data[DomainKey], "rss_reader"), "config")
       IN  hass_data' = IF DOMAIN left = {}
                        THEN Pop(hass_data, DomainKey)
                        ELSE Put(hass_data, DomainKey, left)
    /\ ret' = ReturnedFrom("async_unload_entry", TRUE)
    /\ UNCHANGED <<call, readerVars, threads, sensor_state,
                   sensor_attributes, trigger_state, previous_total, previous_alerts,
                   reset_task, timers, trigger_pc, trigger_locals, callback_pc>>

\* async_unload_entry when unloading the platforms fails.
UnloadEntryFails ==
    /\ EntryLoaded
    /\ ret' = ReturnedFrom("async_unload_entry", FALSE)
    /\ UNCHANGED <<call, readerVars, entityVars>>

\* The baseline of the trigger sensor of an entry that is set up.
LoadedTriggerBaseline == EntryLoaded /\ TriggerBaseline

LoadedTriggerBaselineRaises == EntryLoaded /\ TriggerBaselineRaises

NextLifecycle ==
    \/ SetupEntry
    \/ SensorAdded
    \/ TriggerAdded
    \/ LoadedTriggerBaseline
    \/ LoadedTriggerBaselineRaises
    \/ UnloadEntry
    \/ UnloadEntryFails

SpecLifecycle == Init /\ [][NextLifecycle]_vars

---------------------------------------------------------------------------
(* C30 *)

\* The last call was async_unload_entry and it returned the value.
Unloaded(unload_ok) ==
    /\ ret.returned
    /\ ret.method = "async_unload_entry"
    /\ ret.value = unload_ok

\* C30: after a successful unload of the entry hass.data has no entry of
\* the integration, and so neither its reader nor its config; after a
\* failed unload the reader and the config are in place.
C30_UnloadRemovesDomain ==
    /\ Unloaded(TRUE) => DomainKey \notin DOMAIN hass_data
    /\ Unloaded(FALSE) =>
          /\ DomainKey \in DOMAIN hass_data
          /\ {"rss_reader", "config"} \subseteq DOMAIN hass_data[DomainKey]

=============================================================================
